---- MODULE Spec2Model ----
(***************************************************************************)
(* Model of the employee query engine of ama-employees-ai-agent            *)
(* (pkg/tools/json/json_query.go): JSONQuery.ProcessQuery and the helpers   *)
(* it calls. Go strings are sequences of one-character strings, so that    *)
(* strings.Contains, strings.Fields, strings.ToLower, strconv.Atoi and      *)
(* time.Parse are computed on the characters, as the code computes them.   *)
(***************************************************************************)
EXTENDS Integers, Sequences, FiniteSets, TLC

\* ------------------------------------------------------------------ bounds
\* Longest record collection called with every query.
MaxRecs == 2
\* Longest collection of deactivated records called with the ranking queries.
MaxRanked == 3
\* Length of the long collections (one more than sort.Slice's insertion-sort
\* threshold, see MaxInsertion).
LargeLen == 13
MaxLines == 3

\* ----------------------------------------------------------- Go strings
UpperChars == <<"A","B","C","D","E","F","G","H","I","J","K","L","M",
                "N","O","P","Q","R","S","T","U","V","W","X","Y","Z">>
LowerChars == <<"a","b","c","d","e","f","g","h","i","j","k","l","m",
                "n","o","p","q","r","s","t","u","v","w","x","y","z">>
DigitChars == <<"0","1","2","3","4","5","6","7","8","9">>

\* unicode.ToLower on one (ASCII) character
LowerChar(c) ==
    IF \E i \in 1..Len(UpperChars) : UpperChars[i] = c
    THEN LowerChars[CHOOSE i \in 1..Len(UpperChars) : UpperChars[i] = c]
    ELSE c

\* strings.ToLower
ToLower(s) == [i \in 1..Len(s) |-> LowerChar(s[i])]

\* strings.Contains(s, sub)
Contains(s, sub) ==
    \/ sub = <<>>
    \/ \E i \in 0..(Len(s) - Len(sub)) :
          s[i + 1] = sub[1] /\ SubSeq(s, i + 1, i + Len(sub)) = sub

\* unicode.IsSpace on the characters a query can hold
IsSpace(c) == c \in {" ", "\t", "\n"}

\* strings.Fields(s): the maximal runs of non-space characters, in order.
\* FieldsFrom carries the fields found so far and the field being read.
RECURSIVE FieldsFrom(_, _, _, _)
FieldsFrom(s, i, cur, acc) ==
    IF i > Len(s)
    THEN IF cur = <<>> THEN acc ELSE Append(acc, cur)
    ELSE IF IsSpace(s[i])
         THEN FieldsFrom(s, i + 1, <<>>, IF cur = <<>> THEN acc ELSE Append(acc, cur))
         ELSE FieldsFrom(s, i + 1, Append(cur, s[i]), acc)

Fields(s) == FieldsFrom(s, 1, <<>>, <<>>)

IsDigit(c) == \E i \in 1..Len(DigitChars) : DigitChars[i] = c
DigitVal(c) == (CHOOSE i \in 1..Len(DigitChars) : DigitChars[i] = c) - 1

\* value of a run of decimal digits
RECURSIVE DigitsVal(_)
DigitsVal(s) ==
    IF s = <<>> THEN 0
    ELSE DigitsVal(SubSeq(s, 1, Len(s) - 1)) * 10 + DigitVal(s[Len(s)])

AllDigits(s) == \A i \in 1..Len(s) : IsDigit(s[i])

\* strconv.Atoi(s): an optional sign, then one or more decimal digits;
\* anything else is an error (err # nil is ok = FALSE).
Atoi(s) ==
    LET signed == Len(s) > 0 /\ s[1] \in {"+", "-"}
        body   == IF signed THEN Tail(s) ELSE s
    IN IF body = <<>> \/ ~AllDigits(body)
       THEN [ok |-> FALSE, num |-> 0]
       ELSE [ok |-> TRUE,
             num |-> IF signed /\ s[1] = "-" THEN 0 - DigitsVal(body)
                     ELSE DigitsVal(body)]

\* time.Parse("2006-01-02", s): four digits, "-", two digits, "-", two
\* digits and nothing else; month 1..12 and a day that month has.
IsLeap(y) == (y % 4 = 0 /\ y % 100 # 0) \/ y % 400 = 0
DaysIn(y, m) ==
    IF m = 2 THEN (IF IsLeap(y) THEN 29 ELSE 28)
    ELSE IF m \in {4, 6, 9, 11} THEN 30 ELSE 31

\* ok = FALSE is a parse error; otherwise t orders the dates as time.Time does
ParseDate(s) ==
    IF Len(s) # 10 \/ s[5] # "-" \/ s[8] # "-"
       \/ ~AllDigits(SubSeq(s, 1, 4)) \/ ~AllDigits(SubSeq(s, 6, 7))
       \/ ~AllDigits(SubSeq(s, 9, 10))
    THEN [ok |-> FALSE, t |-> 0]
    ELSE LET y == DigitsVal(SubSeq(s, 1, 4))
             m == DigitsVal(SubSeq(s, 6, 7))
             d == DigitsVal(SubSeq(s, 9, 10))
         IN IF m < 1 \/ m > 12 \/ d < 1 \/ d > DaysIn(y, m)
            THEN [ok |-> FALSE, t |-> 0]
            ELSE [ok |-> TRUE, t |-> (y * 12 + (m - 1)) * 31 + (d - 1)]

\* ------------------------------------------------ keywords of the classifier
\* the string literals ProcessQuery and isSpecificEmployeeSearch look for
KwDeactivat == <<"d","e","a","c","t","i","v","a","t">>
KwTerminat == <<"t","e","r","m","i","n","a","t">>
KwActive == <<"a","c","t","i","v","e">>
KwLast == <<"l","a","s","t">>
KwRecent == <<"r","e","c","e","n","t">>
KwSortByDate == <<"s","o","r","t"," ","b","y"," ","d","a","t","e">>
KwSortByDeactivation == <<"s","o","r","t"," ","b","y"," ","d","e","a","c","t","i","v","a","t","i","o","n">>
KwTop == <<"t","o","p">>
KwLatest == <<"l","a","t","e","s","t">>
KwEmployees == <<"e","m","p","l","o","y","e","e","s">>
KwEmployee == <<"e","m","p","l","o","y","e","e">>
KwTable == <<"t","a","b","l","e">>
KwMarkdown == <<"m","a","r","k","d","o","w","n">>
KwFind == <<"f","i","n","d">>
KwFindLast == <<"f","i","n","d"," ","l","a","s","t">>
KwFindTop == <<"f","i","n","d"," ","t","o","p">>
KwFindTheLast == <<"f","i","n","d"," ","t","h","e"," ","l","a","s","t">>
KwFindTheTop == <<"f","i","n","d"," ","t","h","e"," ","t","o","p">>

\* ------------------------------------------------------ texts of the output
MsgNoEmployees == <<"N","o"," ","e","m","p","l","o","y","e","e","s"," ","f","o","u","n","d"," ","m","a","t","c","h","i","n","g"," ","t","h","e"," ","c","r","i","t","e","r","i","a",".">>
MsgNotFound == <<"E","m","p","l","o","y","e","e"," ","n","o","t"," ","f","o","u","n","d"," ","i","n"," ","t","h","e"," ","d","a","t","a","s","e","t",".">>
TxtFound == <<"F","o","u","n","d"," ">>
TxtEmployeesColon == <<" ","e","m","p","l","o","y","e","e","s",":">>
TxtDotSpace == <<"."," ">>
TxtSpace == <<" ">>
TxtDash == <<" ","-"," ">>
TxtDeactivatedOn == <<" ","(","D","e","a","c","t","i","v","a","t","e","d"," ","o","n"," ">>
TxtCloseParen == <<")">>
TxtDeactivatedParen == <<" ","(","D","e","a","c","t","i","v","a","t","e","d",")">>
TxtTableHeader == <<"|"," ","N","a","m","e"," ","|"," ","T","i","t","l","e"," ","|"," ","E","m","a","i","l"," ","|"," ","S","t","a","t","u","s"," ","|"," ","D","e","a","c","t","i","v","a","t","i","o","n"," ","D","a","t","e"," ","|">>
TxtTableRule == <<"|","-","-","-","-","-","-","|","-","-","-","-","-","-","-","|","-","-","-","-","-","-","-","|","-","-","-","-","-","-","-","-","|","-","-","-","-","-","-","-","-","-","-","-","-","-","-","-","-","-","-","|">>
TxtBar == <<"|"," ">>
TxtMidBar == <<" ","|"," ">>
TxtEndBar == <<" ","|">>
TxtActive == <<"A","c","t","i","v","e">>
TxtDeactivated == <<"D","e","a","c","t","i","v","a","t","e","d">>
TxtEmployee == <<"E","m","p","l","o","y","e","e",":"," ">>
TxtTitle == <<"T","i","t","l","e",":"," ">>
TxtEmail == <<"E","m","a","i","l",":"," ">>
TxtStatusDeactivated == <<"S","t","a","t","u","s",":"," ","D","e","a","c","t","i","v","a","t","e","d">>
TxtStatusActive == <<"S","t","a","t","u","s",":"," ","A","c","t","i","v","e">>
TxtDeactivationDate == <<"D","e","a","c","t","i","v","a","t","i","o","n"," ","D","a","t","e",":"," ">>
TxtErrorDecode == <<"E","r","r","o","r",":"," ","j","s","o","n",":"," ","c","a","n","n","o","t"," ","u","n","m","a","r","s","h","a","l"," ","o","b","j","e","c","t"," ","i","n","t","o"," ","G","o"," ","v","a","l","u","e"," ","o","f"," ","t","y","p","e"," ","[","]","m","o","d","e","l",".","E","m","p","l","o","y","e","e","I","n","f","o">>
TxtErrorTitle == <<"E","r","r","o","r",":"," ","j","s","o","n",":"," ","c","a","n","n","o","t"," ","u","n","m","a","r","s","h","a","l"," ","n","u","m","b","e","r"," ","i","n","t","o"," ","G","o"," ","s","t","r","u","c","t"," ","f","i","e","l","d"," ","E","m","p","l","o","y","e","e","I","n","f","o",".","t","i","t","l","e"," ","o","f"," ","t","y","p","e"," ","s","t","r","i","n","g">>
TxtErrorDeactivated == <<"E","r","r","o","r",":"," ","j","s","o","n",":"," ","c","a","n","n","o","t"," ","u","n","m","a","r","s","h","a","l"," ","s","t","r","i","n","g"," ","i","n","t","o"," ","G","o"," ","s","t","r","u","c","t"," ","f","i","e","l","d"," ","E","m","p","l","o","y","e","e","I","n","f","o",".","d","e","a","c","t","i","v","a","t","e","d"," ","o","f"," ","t","y","p","e"," ","b","o","o","l">>
TxtErrorElement == <<"E","r","r","o","r",":"," ","j","s","o","n",":"," ","c","a","n","n","o","t"," ","u","n","m","a","r","s","h","a","l"," ","n","u","m","b","e","r"," ","i","n","t","o"," ","G","o"," ","v","a","l","u","e"," ","o","f"," ","t","y","p","e"," ","m","o","d","e","l",".","E","m","p","l","o","y","e","e","I","n","f","o">>

\* ------------------------------------------------------------ record model
\* model.EmployeeInfo as a JSON object: every string field is a Go string,
\* deactivated a bool; deactivated_date is "" when the key is omitted.
EmployeeInfo(first, last, email, title, deact, date) ==
    [first_name |-> first, last_name |-> last, email |-> email, title |-> title,
     deactivated |-> deact, deactivated_date |-> date]

\* An element of a document that does not fit model.EmployeeInfo: an object
\* one key of which holds a value of another JSON type than the field (the
\* fields of emp are what the other keys hold; the value emp has at the key
\* itself stands for nothing), and an element that is not an object.
Mistyped(emp, key) ==
    [first_name |-> emp.first_name, last_name |-> emp.last_name,
     email |-> emp.email, title |-> emp.title, deactivated |-> emp.deactivated,
     deactivated_date |-> emp.deactivated_date, mistyped |-> key]
JsonNumber == [number |-> 7]
IsObject(x) == "first_name" \in DOMAIN x
FitsModel(x) == IsObject(x) /\ "mistyped" \notin DOMAIN x

\* ---------------------------------------------------------------- gojsonq
\* The decoded document: nil when the text is not JSON (FromString records the
\* decode error and leaves the content nil), else the decoded value.
JsonNull == [kind |-> "null"]
JsonArray(items) == [kind |-> "array", items |-> items]
JsonObject == [kind |-> "object"]

\* gojsonq.New().FromString(string(jsonData))
FromString(doc) ==
    LET root == IF doc.kind = "malformed" THEN JsonNull ELSE doc
    IN [root |-> root, content |-> root, queries |-> <<>>, queryIndex |-> 0]

\* jq.Reset()
Reset(jq) == [jq EXCEPT !.content = jq.root, !.queries = <<>>, !.queryIndex = 0]

\* jq.Where(key, op, val): a new first group, or one more condition of the
\* current group
Where(jq, key, op, val) ==
    LET q == [key |-> key, op |-> op, val |-> val]
    IN IF jq.queryIndex = 0 /\ Len(jq.queries) = 0
       THEN [jq EXCEPT !.queries = <<<<q>>>>]
       ELSE [jq EXCEPT !.queries[jq.queryIndex + 1] = Append(@, q)]

\* jq.OrWhere(key, op, val): a new group
OrWhere(jq, key, op, val) ==
    [jq EXCEPT !.queryIndex = @ + 1,
               !.queries = Append(@, <<[key |-> key, op |-> op, val |-> val]>>)]

\* one condition on one object: "=" is reflect.DeepEqual, "contains" the
\* case-insensitive strings.Contains, which fails on a value that is not a
\* string (the condition then counts as not met)
CondHolds(obj, q) ==
    IF ~FitsModel(obj) /\ obj.mistyped = q.key THEN FALSE
    ELSE IF q.op = "=" THEN obj[q.key] = q.val
    ELSE Contains(ToLower(obj[q.key]), ToLower(q.val))

\* findInArray and findInMap: an element that is not an object never passes;
\* an object passes when every condition of some group holds
Passes(obj, queries) ==
    /\ IsObject(obj)
    /\ \E g \in 1..Len(queries) :
          \A c \in 1..Len(queries[g]) : CondHolds(obj, queries[g][c])

\* the elements of items that satisfy keep, in their order
RECURSIVE SelectItems(_, _)
SelectItems(items, queries) ==
    IF items = <<>> THEN <<>>
    ELSE LET rest == SelectItems(Tail(items), queries)
         IN IF Passes(Head(items), queries) THEN <<Head(items)>> \o rest ELSE rest

\* jq.Get(): runs the conditions over an array (prepare/processQuery), and
\* returns the content; any other content is returned as it is
Get(jq) ==
    IF Len(jq.queries) > 0 /\ jq.content.kind = "array"
    THEN JsonArray(SelectItems(jq.content.items, jq.queries))
    ELSE jq.content

\* the text of the error json.Unmarshal returns for the element x
UnmarshalTypeError(x) ==
    IF ~IsObject(x) THEN TxtErrorElement
    ELSE IF x.mistyped = "title" THEN TxtErrorTitle
    ELSE TxtErrorDeactivated

\* json.Marshal(result) then json.Unmarshal(resultBytes, &employees):
\* null decodes to an empty slice, an array of objects to its records, and
\* an object cannot be decoded into a slice; an element of the array that
\* does not fit model.EmployeeInfo makes Unmarshal return an
\* UnmarshalTypeError
DecodeEmployees(result) ==
    IF result.kind = "null" THEN [err |-> FALSE, employees |-> <<>>, text |-> <<>>]
    ELSE IF result.kind = "array"
    THEN LET bad == {i \in 1..Len(result.items) : ~FitsModel(result.items[i])}
         IN IF bad = {}
            THEN [err |-> FALSE, employees |-> result.items, text |-> <<>>]
            ELSE [err |-> TRUE, employees |-> <<>>,
                  text |-> UnmarshalTypeError(
                               result.items[CHOOSE i \in bad : \A j \in bad : i <= j])]
    ELSE [err |-> TRUE, employees |-> <<>>, text |-> TxtErrorDecode]

\* -------------------------------------------------------- intent classifier
\* faulty variant: "active" is looked for first
StatusFilterActiveFirst(query) ==
    IF Contains(query, KwActive) THEN "ACTIVE"
    ELSE IF Contains(query, KwDeactivat) \/ Contains(query, KwTerminat) THEN "DEACTIVATED"
    ELSE "ALL"

\* lines 41-47: which status condition ProcessQuery adds
StatusFilter(query) ==
    IF Contains(query, KwDeactivat) \/ Contains(query, KwTerminat) THEN "DEACTIVATED"
    ELSE IF Contains(query, KwActive) /\ ~Contains(query, KwDeactivat) THEN "ACTIVE"
    ELSE "ALL"

\* faulty variant: the two conditions are swapped
ApplyStatusFilterSwapped(jq, query) ==
    LET f == StatusFilter(query)
    IN IF f = "DEACTIVATED" THEN Where(jq, "deactivated", "=", FALSE)
       ELSE IF f = "ACTIVE" THEN Where(jq, "deactivated", "=", TRUE)
       ELSE jq

ApplyStatusFilter(jq, query) ==
    LET f == StatusFilter(query)
    IN IF f = "DEACTIVATED" THEN Where(jq, "deactivated", "=", TRUE)
       ELSE IF f = "ACTIVE" THEN Where(jq, "deactivated", "=", FALSE)
       ELSE jq

\* lines 73-74
WantsDateSort(query) ==
    \/ Contains(query, KwLast) \/ Contains(query, KwRecent)
    \/ Contains(query, KwSortByDate) \/ Contains(query, KwSortByDeactivation)

\* line 150
WantsTable(query) == Contains(query, KwTable) \/ Contains(query, KwMarkdown)

\* isSpecificEmployeeSearch
SpecificPatterns ==
    {<<"w","h","e","n"," ","w","a","s">>, <<"w","h","e","n"," ","d","i","d">>,
     <<"w","h","a","t"," ","d","a","t","e">>, <<"w","h","o"," ","i","s">>,
     <<"i","n","f","o","r","m","a","t","i","o","n"," ","a","b","o","u","t">>,
     <<"d","e","t","a","i","l","s"," ","f","o","r">>,
     <<"d","e","t","a","i","l","s"," ","a","b","o","u","t">>,
     <<"f","i","n","d"," ","e","m","p","l","o","y","e","e">>,
     <<"s","e","a","r","c","h"," ","f","o","r">>, <<"l","o","o","k"," ","f","o","r">>,
     <<"l","o","c","a","t","e">>,
     <<"g","e","t"," ","i","n","f","o"," ","o","n">>}

\* faulty variant: "find" alone decides, the count patterns are not looked for
isSpecificEmployeeSearchAnyFind(query) ==
    (\E p \in SpecificPatterns : Contains(query, p)) \/ Contains(query, KwFind)

isSpecificEmployeeSearch(query) ==
    IF \E p \in SpecificPatterns : Contains(query, p) THEN TRUE
    ELSE IF Contains(query, KwFind)
         THEN ~(\/ Contains(query, KwFindLast) \/ Contains(query, KwFindTop)
                \/ Contains(query, KwFindTheLast) \/ Contains(query, KwFindTheTop))
         ELSE FALSE

\* --------------------------------------------------------------- sort.Slice
\* sort.Slice sorts slices of at most this many elements by insertion sort
\* (pdqsort's maxInsertion)
MaxInsertion == 12

\* faulty variant: the dates compared the other way round (oldest first)
LessAscending(ei, ej) ==
    LET dateI == ei.deactivated_date
        dateJ == ej.deactivated_date
        timeI == ParseDate(dateI)
        timeJ == ParseDate(dateJ)
    IN IF dateI = <<>> \/ ~timeI.ok THEN FALSE
       ELSE IF dateJ = <<>> \/ ~timeJ.ok THEN TRUE
       ELSE timeI.t < timeJ.t

\* the less function of lines 76-107, on two records
Less(ei, ej) ==
    LET dateI == ei.deactivated_date
        dateJ == ej.deactivated_date
        timeI == ParseDate(dateI)
        timeJ == ParseDate(dateJ)
    IN IF dateI = <<>> /\ dateJ = <<>> THEN FALSE
       ELSE IF dateI = <<>> THEN FALSE
       ELSE IF dateJ = <<>> THEN TRUE
       ELSE IF ~timeI.ok /\ ~timeJ.ok THEN FALSE
       ELSE IF ~timeI.ok THEN FALSE
       ELSE IF ~timeJ.ok THEN TRUE
       ELSE timeI.t > timeJ.t

\* insertion sort's inner loop: the element at j moves left while it is less
\* than its left neighbour
RECURSIVE SiftLeft(_, _)
SiftLeft(s, j) ==
    IF j > 1 /\ Less(s[j], s[j - 1])
    THEN SiftLeft([s EXCEPT ![j] = s[j - 1], ![j - 1] = s[j]], j - 1)
    ELSE s

RECURSIVE InsertionSortFrom(_, _)
InsertionSortFrom(s, i) ==
    IF i > Len(s) THEN s ELSE InsertionSortFrom(SiftLeft(s, i), i + 1)

InsertionSort(s) == InsertionSortFrom(s, 2)

\* all orders of the elements of s
RECURSIVE Perms(_)
Perms(s) ==
    IF s = <<>> THEN {<<>>}
    ELSE UNION {{<<s[i]>> \o r :
                   r \in Perms(SubSeq(s, 1, i - 1) \o SubSeq(s, i + 1, Len(s)))} :
                i \in 1..Len(s)}

\* the length of the run of elements at the head of the sorted s that less
\* does not tell apart
RECURSIVE RunLen(_, _)
RunLen(s, n) ==
    IF n < Len(s) /\ ~Less(s[1], s[n + 1]) THEN RunLen(s, n + 1) ELSE n

\* every order of the sorted s that less accepts as sorted: each run of
\* elements less does not tell apart, in any order
RECURSIVE SortedOrders(_)
SortedOrders(s) ==
    IF s = <<>> THEN {<<>>}
    ELSE LET n == RunLen(s, 1)
         IN {p \o r : p \in Perms(SubSeq(s, 1, n)),
                      r \in SortedOrders(SubSeq(s, n + 1, Len(s)))}

\* faulty variant: the slice is left as it was
SortSliceNothing(s) == {s}

\* sort.Slice(employees, less): the slices it can leave. Insertion sort up to
\* MaxInsertion elements; a longer slice is sorted, with the order of the
\* elements less does not tell apart left unspecified ("The sort is not
\* guaranteed to be stable").
SortSlice(s) ==
    IF Len(s) <= MaxInsertion THEN {InsertionSort(s)}
    ELSE SortedOrders(InsertionSort(s))

\* ------------------------------------------------------------------ limiting
IsLimitWord(w) == w = KwLast \/ w = KwTop \/ w = KwLatest
IsEmployeeWord(w) == w = KwEmployees \/ w = KwEmployee

\* faulty variant: the last num records are kept instead of the first
RECURSIVE LimitScanKeepsLast(_, _, _)
LimitScanKeepsLast(words, i, emps) ==
    IF i > Len(words) THEN [employees |-> emps, limitApplied |-> FALSE]
    ELSE LET word == words[i]
             nxt  == IF i + 1 <= Len(words) THEN Atoi(words[i + 1]) ELSE [ok |-> FALSE, num |-> 0]
             cur  == Atoi(word)
         IN IF /\ (word = KwLast \/ word = KwTop \/ word = KwLatest) /\ i + 1 <= Len(words)
               /\ nxt.ok /\ nxt.num > 0 /\ nxt.num < Len(emps)
            THEN [employees |-> SubSeq(emps, Len(emps) - nxt.num + 1, Len(emps)),
                  limitApplied |-> TRUE]
            ELSE IF /\ i + 1 <= Len(words)
                    /\ (words[i + 1] = KwEmployees \/ words[i + 1] = KwEmployee)
                    /\ cur.ok /\ cur.num > 0 /\ cur.num < Len(emps)
            THEN [employees |-> SubSeq(emps, Len(emps) - cur.num + 1, Len(emps)),
                  limitApplied |-> TRUE]
            ELSE LimitScanKeepsLast(words, i + 1, emps)

\* faulty variant: a token after a limit keyword that is no number counts as 1
RECURSIVE LimitScanLenient(_, _, _)
LimitScanLenient(words, i, emps) ==
    IF i > Len(words) THEN [employees |-> emps, limitApplied |-> FALSE]
    ELSE LET word == words[i]
             nxt  == IF i + 1 <= Len(words)
                     THEN (IF Atoi(words[i + 1]).ok THEN Atoi(words[i + 1])
                           ELSE [ok |-> TRUE, num |-> 1])
                     ELSE [ok |-> FALSE, num |-> 0]
             cur  == Atoi(word)
         IN IF /\ IsLimitWord(word) /\ i + 1 <= Len(words)
               /\ nxt.ok /\ nxt.num > 0 /\ nxt.num < Len(emps)
            THEN [employees |-> SubSeq(emps, 1, nxt.num), limitApplied |-> TRUE]
            ELSE IF /\ i + 1 <= Len(words) /\ IsEmployeeWord(words[i + 1])
                    /\ cur.ok /\ cur.num > 0 /\ cur.num < Len(emps)
            THEN [employees |-> SubSeq(emps, 1, cur.num), limitApplied |-> TRUE]
            ELSE LimitScanLenient(words, i + 1, emps)

\* the loop of lines 119-142 from index i on: the first pattern whose number is
\* positive and less than len(employees) truncates and ends the loop
RECURSIVE LimitScan(_, _, _)
LimitScan(words, i, emps) ==
    IF i > Len(words) THEN [employees |-> emps, limitApplied |-> FALSE]
    ELSE LET word == words[i]
             nxt  == IF i + 1 <= Len(words) THEN Atoi(words[i + 1]) ELSE [ok |-> FALSE, num |-> 0]
             cur  == Atoi(word)
         IN IF /\ IsLimitWord(word) /\ i + 1 <= Len(words)
               /\ nxt.ok /\ nxt.num > 0 /\ nxt.num < Len(emps)
            THEN [employees |-> SubSeq(emps, 1, nxt.num), limitApplied |-> TRUE]
            ELSE IF /\ i + 1 <= Len(words) /\ IsEmployeeWord(words[i + 1])
                    /\ cur.ok /\ cur.num > 0 /\ cur.num < Len(emps)
            THEN [employees |-> SubSeq(emps, 1, cur.num), limitApplied |-> TRUE]
            ELSE LimitScan(words, i + 1, emps)

ApplyLimit(query, emps) == LimitScan(Fields(query), 1, emps).employees

\* ---------------------------------------------------------------- formatting
\* strconv.Itoa / %d of a number n >= 0
RECURSIVE Itoa(_)
Itoa(n) == IF n < 10 THEN <<DigitChars[n + 1]>>
           ELSE Itoa(n \div 10) \o <<DigitChars[(n % 10) + 1]>>

\* A text is the sequence of its lines, a line the sequence of the pieces
\* written to it (the literals and the %s, %d values of each Sprintf).

\* FormatResults: the list
ListLine(i, emp) ==
    <<Itoa(i), TxtDotSpace, emp.first_name, TxtSpace, emp.last_name>>
    \o (IF emp.title # <<>> THEN <<TxtDash, emp.title>> ELSE <<>>)
    \o (IF emp.deactivated
        THEN IF emp.deactivated_date # <<>>
             THEN <<TxtDeactivatedOn, emp.deactivated_date, TxtCloseParen>>
             ELSE <<TxtDeactivatedParen>>
        ELSE <<>>)

FormatResults(employees) ==
    IF Len(employees) = 0 THEN <<<<MsgNoEmployees>>>>
    ELSE <<<<TxtFound, Itoa(Len(employees)), TxtEmployeesColon>>, <<>>>>
         \o [i \in 1..Len(employees) |-> ListLine(i, employees[i])]

\* faulty variant: the date of the record is printed whatever its status
TableRowAlwaysDate(emp) ==
    LET name == emp.first_name \o TxtSpace \o emp.last_name
        status == IF emp.deactivated THEN TxtDeactivated ELSE TxtActive
    IN <<TxtBar, name, TxtMidBar, emp.title, TxtMidBar, emp.email, TxtMidBar,
         status, TxtMidBar, emp.deactivated_date, TxtEndBar>>

\* FormatAsMarkdownTable
TableRow(emp) ==
    LET name == emp.first_name \o TxtSpace \o emp.last_name
        status == IF emp.deactivated THEN TxtDeactivated ELSE TxtActive
        deactivationDate == IF emp.deactivated THEN emp.deactivated_date ELSE <<>>
    IN <<TxtBar, name, TxtMidBar, emp.title, TxtMidBar, emp.email, TxtMidBar,
         status, TxtMidBar, deactivationDate, TxtEndBar>>

\* faulty variant: no check for an empty slice
FormatAsMarkdownTableUnchecked(employees) ==
    <<<<TxtTableHeader>>, <<TxtTableRule>>>>
    \o [i \in 1..Len(employees) |-> TableRow(employees[i])]

FormatAsMarkdownTable(employees) ==
    IF Len(employees) = 0 THEN <<<<MsgNoEmployees>>>>
    ELSE <<<<TxtTableHeader>>, <<TxtTableRule>>>>
         \o [i \in 1..Len(employees) |-> TableRow(employees[i])]

\* findSpecificEmployee, lines 198-220: the narrative of one record
Narrative(emp) ==
    <<<<TxtEmployee, emp.first_name, TxtSpace, emp.last_name>>>>
    \o (IF emp.title # <<>> THEN <<<<TxtTitle, emp.title>>>> ELSE <<>>)
    \o (IF emp.email # <<>> THEN <<<<TxtEmail, emp.email>>>> ELSE <<>>)
    \o (IF emp.deactivated
        THEN <<<<TxtStatusDeactivated>>>>
             \o (IF emp.deactivated_date # <<>>
                 THEN <<<<TxtDeactivationDate, emp.deactivated_date>>>> ELSE <<>>)
        ELSE <<<<TxtStatusActive>>>>)

\* faulty variant: the conditions of the query are not reset before a pair
\* is searched, and the status condition of ProcessQuery stays
RECURSIVE FindFromKeepsFilter(_, _, _)
FindFromKeepsFilter(jq, words, i) ==
    IF i >= Len(words) THEN <<<<MsgNotFound>>>>
    ELSE IF Len(words[i]) < 3 \/ Len(words[i + 1]) < 3
    THEN FindFromKeepsFilter(jq, words, i + 1)
    ELSE LET result == Get(OrWhere(OrWhere(jq, "first_name", "contains", words[i]),
                                   "last_name", "contains", words[i + 1]))
             dec == DecodeEmployees(result)
         IN IF dec.err \/ Len(dec.employees) = 0
            THEN FindFromKeepsFilter(jq, words, i + 1)
            ELSE Narrative(dec.employees[1])

\* faulty variant: a record has to match both words of the pair
RECURSIVE FindFromBothNames(_, _, _)
FindFromBothNames(jq, words, i) ==
    IF i >= Len(words) THEN <<<<MsgNotFound>>>>
    ELSE IF Len(words[i]) < 3 \/ Len(words[i + 1]) < 3
    THEN FindFromBothNames(jq, words, i + 1)
    ELSE LET result == Get(Where(Where(Reset(jq), "first_name", "contains", words[i]),
                                 "last_name", "contains", words[i + 1]))
             dec == DecodeEmployees(result)
         IN IF dec.err \/ Len(dec.employees) = 0 THEN FindFromBothNames(jq, words, i + 1)
            ELSE Narrative(dec.employees[1])

\* findSpecificEmployee: the adjacent word pairs from index i on
RECURSIVE FindFrom(_, _, _)
FindFrom(jq, words, i) ==
    IF i >= Len(words) THEN <<<<MsgNotFound>>>>
    ELSE IF Len(words[i]) < 3 \/ Len(words[i + 1]) < 3 THEN FindFrom(jq, words, i + 1)
    ELSE LET result == Get(OrWhere(OrWhere(Reset(jq), "first_name", "contains", words[i]),
                                   "last_name", "contains", words[i + 1]))
             dec == DecodeEmployees(result)
         IN IF dec.err \/ Len(dec.employees) = 0 THEN FindFrom(jq, words, i + 1)
            ELSE Narrative(dec.employees[1])

findSpecificEmployee(jq, query) == FindFrom(jq, Fields(query), 1)

\* ------------------------------------------------------------------- inputs
\* The record collections and queries ProcessQuery is called with.
DateMar2022 == <<"2","0","2","2","-","0","3","-","1","5">>
DateJan2024 == <<"2","0","2","4","-","0","1","-","0","1">>
DateSlashed == <<"1","5","/","0","3","/","2","0","2","2">>
LeadFind == <<"F","i","n","d">>
LeadWhenWas == <<"w","h","e","n"," ","w","a","s"," ","J","o","h","n"," ","D","o","e">>
LeadWhenJohn == <<"W","h","e","n"," ","J","o","h","n"," ","D","o","e"," ","w","a","s">>
LimitLast2 == <<"l","a","s","t"," ","2">>
LimitLatest1 == <<"l","a","t","e","s","t"," ","1">>
LimitLast5 == <<"l","a","s","t"," ","5">>
Limit2Employees == <<"2"," ","e","m","p","l","o","y","e","e","s">>
LimitTopX == <<"t","o","p"," ","x">>
StatusDeactivated == <<"d","e","a","c","t","i","v","a","t","e","d">>
StatusInactive == <<"I","n","a","c","t","i","v","e">>
StatusActiveTerminated == <<"a","c","t","i","v","e"," ","T","e","r","m","i","n","a","t","e","d">>
\* an example query of the QueryJSON tool description, and two lookups
QueryWhenJohnDoe == <<"W","h","e","n"," ","J","o","h","n"," ","D","o","e"," ","w","a","s"," ","d","e","a","c","t","i","v","a","t","e","d","?">>
LeadFindKai == <<"F","i","n","d"," ","K","a","i"," ","M","o","s","s">>
LeadFindMax == <<"f","i","n","d"," ","m","a","x"," ","o","r","r">>
TailRecent == <<"r","e","c","e","n","t">>
TailTop1 == <<"t","o","p"," ","1">>
TailAsTable == <<"a","s"," ","t","a","b","l","e">>
TailSortByDeactivation == <<"s","o","r","t"," ","b","y"," ","d","e","a","c","t","i","v","a","t","i","o","n">>

\* a deactivated record with a date, an active one, a later date, no date, a
\* date time.Parse rejects, and a second record with the first one's date
EmpJohn ==
    EmployeeInfo(<<"J","o","h","n">>, <<"D","o","e">>,
                 <<"j","o","h","n","@","a","m","a",".","i","o">>, <<"E","n","g","i","n","e","e","r">>, TRUE, DateMar2022)
EmpJane ==
    EmployeeInfo(<<"J","a","n","e">>, <<"R","o","e">>,
                 <<>>, <<>>, FALSE, <<>>)
EmpAnn ==
    EmployeeInfo(<<"A","n","n">>, <<"W","a","s","i","k">>,
                 <<"a","n","n","@","a","m","a",".","i","o">>, <<"M","a","n","a","g","e","r">>, TRUE, DateJan2024)
EmpBob ==
    EmployeeInfo(<<"B","o","b">>, <<"L","e","e">>,
                 <<>>, <<>>, TRUE, <<>>)
EmpEve ==
    EmployeeInfo(<<"E","v","e">>, <<"K","i","m">>,
                 <<>>, <<"A","n","a","l","y","s","t">>, TRUE, DateSlashed)
EmpTom ==
    EmployeeInfo(<<"T","o","m">>, <<"R","a","y">>,
                 <<>>, <<>>, TRUE, DateMar2022)

\* an active record that carries a date, and the elements that do not fit
\* the record model: a title that is a number, a deactivated flag that is a
\* string
EmpKai ==
    EmployeeInfo(<<"K","a","i">>, <<"M","o","s","s">>,
                 <<>>, <<>>, FALSE, DateJan2024)
EmpMax ==
    Mistyped(EmployeeInfo(<<"M","a","x">>, <<"O","r","r">>,
                          <<>>, <<>>, TRUE, DateMar2022), "title")
EmpZoe ==
    Mistyped(EmployeeInfo(<<"Z","o","e">>, <<"F","o","x">>,
                          <<>>, <<>>, FALSE, <<>>), "deactivated")

\* the records of the collections called with every query, and the
\* deactivated records of the ranked collections
Pool == {EmpJohn, EmpJane, EmpAnn, EmpBob}
Deactivated == {e \in Pool \cup {EmpEve, EmpTom} : e.deactivated}

\* the sequences of at most n elements of S
RECURSIVE SeqsUpTo(_, _)
SeqsUpTo(S, n) ==
    IF n = 0 THEN {<<>>}
    ELSE LET shorter == SeqsUpTo(S, n - 1)
         IN shorter \cup {Append(s, e) : s \in {t \in shorter : Len(t) = n - 1},
                                         e \in S}

Distinct(s) == \A i, j \in 1..Len(s) : i # j => s[i] # s[j]

\* the collections of at most MaxRecs different records
Collections == {s \in SeqsUpTo(Pool, MaxRecs) : Distinct(s)}

\* the collections of at most MaxRanked different deactivated records
RankCollections == {s \in SeqsUpTo(Deactivated, MaxRanked) : Distinct(s)}

\* the collections of at most MaxRecs different elements some of which do
\* not fit the record model
OddPool == {EmpJohn, EmpKai, EmpMax, EmpZoe, JsonNumber}
OddCollections == {s \in SeqsUpTo(OddPool, MaxRecs) : Distinct(s)}

\* A long collection: record i was deactivated on day i of January 2024,
\* but record k on the same day as record 1.
TwoDigits(n) == IF n < 10 THEN <<"0">> \o Itoa(n) ELSE Itoa(n)
DayOfJan2024(d) == <<"2","0","2","4","-","0","1","-">> \o TwoDigits(d)
LargeEmp(i, d) ==
    EmployeeInfo(<<"E","m","p">> \o Itoa(i), <<"N">> \o Itoa(i), <<>>, <<>>,
                 TRUE, DayOfJan2024(d))
LargeCollection(k) ==
    [i \in 1..LargeLen |-> LargeEmp(i, IF i = k THEN 1 ELSE i)]
LargeCollections == {LargeCollection(k) : k \in 2..LargeLen}

\* the documents: a collection as a JSON array, a text that is not JSON, and
\* a JSON object
Documents ==
    {JsonArray(c) : c \in Collections} \cup {[kind |-> "malformed"], JsonObject}
RankDocuments == {JsonArray(c) : c \in RankCollections \cup LargeCollections}
OddDocuments == {JsonArray(c) : c \in OddCollections}

\* a query: one phrase of each kind (or none), separated by single spaces
Phrase(a, b, c, d) == a \o TxtSpace \o b \o TxtSpace \o c \o TxtSpace \o d

Limits == {<<>>, LimitLast2, LimitLatest1, LimitLast5, Limit2Employees, LimitTopX}
Statuses == {<<>>, StatusDeactivated, StatusInactive, StatusActiveTerminated}
Tails == {<<>>, TailRecent, TailTop1, TailAsTable, TailSortByDeactivation}

Queries ==
    {Phrase(<<>>, b, c, d) : b \in Limits, c \in Statuses, d \in Tails}
    \cup {Phrase(a, b, c, d) : a \in {LeadFind, LeadWhenWas, LeadWhenJohn},
                               b \in {<<>>, LimitLast2}, c \in Statuses,
                               d \in {<<>>, TailRecent, TailAsTable}}
    \cup {QueryWhenJohnDoe}

\* the queries the longer collections are ranked with
RankQueries ==
    {Phrase(<<>>, b, StatusDeactivated, d) :
        b \in {<<>>, LimitLast2, LimitLatest1},
        d \in {<<>>, TailRecent, TailSortByDeactivation}}

\* a lookup that also holds a limit, a status, a sort and a format phrase
QueryFindKaiBulkWords ==
    Phrase(LeadFindKai, LimitLatest1, StatusDeactivated,
           TailRecent \o TxtSpace \o TailAsTable)

\* the queries the collections with elements that do not fit are called with
OddQueries ==
    {Phrase(<<>>, b, c, d) : b \in {<<>>, LimitLatest1},
                             c \in {<<>>, StatusDeactivated, StatusInactive},
                             d \in {<<>>, TailRecent, TailAsTable}}
    \cup {LeadFindKai, LeadFindMax, QueryFindKaiBulkWords}

\* the calls of ProcessQuery
Inputs ==
    {[doc |-> x, q |-> y] : x \in Documents, y \in Queries}
    \cup {[doc |-> x, q |-> y] : x \in RankDocuments, y \in RankQueries}
    \cup {[doc |-> x, q |-> y] : x \in OddDocuments, y \in OddQueries}

\* --------------------------------------------------------- Slack directory
\* pkg/tools/slack: the fetch of the users of the workspace, page by page.
maxPaginationAttempts == 10

FilterAll == "all"
FilterActive == "active"
FilterDeactivated == "deactivated"

\* strings.Split(s, " "): the parts between single spaces (one part more
\* than there are spaces, empty parts included)
RECURSIVE SplitFrom(_, _, _, _)
SplitFrom(s, i, cur, acc) ==
    IF i > Len(s) THEN Append(acc, cur)
    ELSE IF s[i] = " " THEN SplitFrom(s, i + 1, <<>>, Append(acc, cur))
    ELSE SplitFrom(s, i + 1, Append(cur, s[i]), acc)
Split(s) == SplitFrom(s, 1, <<>>, <<>>)

\* a number n >= 0 in at least width digits, zeros in front
Pad(n, width) ==
    LET digits == Itoa(n)
    IN [i \in 1..(width - Len(digits)) |-> "0"] \o digits

\* jsonTime.Time().Format("2006-01-02"): the civil date (in UTC) of the
\* second `updated` of the Unix epoch
estimateDeactivatedDateFromJSON(updated) ==
    LET z   == (updated \div 86400) + 719468
        era == z \div 146097
        doe == z - era * 146097
        yoe == (doe - doe \div 1460 + doe \div 36524 - doe \div 146096) \div 365
        doy == doe - (365 * yoe + yoe \div 4 - yoe \div 100)
        mp  == (5 * doy + 2) \div 153
        d   == doy - (153 * mp + 2) \div 5 + 1
        m   == IF mp < 10 THEN mp + 3 ELSE mp - 9
        y   == yoe + era * 400 + (IF m <= 2 THEN 1 ELSE 0)
    IN Pad(y, 4) \o <<"-">> \o Pad(m, 2) \o <<"-">> \o Pad(d, 2)

\* slack.User, the fields the fetch reads
User(realName, first, last, email, title, deleted, isBot, updated) ==
    [RealName |-> realName, FirstName |-> first, LastName |-> last,
     Email |-> email, Title |-> title, Deleted |-> deleted, IsBot |-> isBot,
     Updated |-> updated]

\* faulty variant: the date is estimated for every user
processUserAlwaysDated(emps, user, flt) ==
    LET nameParts == Split(user.RealName)
        firstName == IF user.FirstName = <<>> /\ Len(nameParts) > 0
                     THEN nameParts[1] ELSE user.FirstName
        lastName  == IF user.LastName = <<>> /\ Len(nameParts) > 1
                     THEN nameParts[Len(nameParts)] ELSE user.LastName
        employee  == EmployeeInfo(firstName, lastName, user.Email, user.Title,
                                  user.Deleted,
                                  estimateDeactivatedDateFromJSON(user.Updated))
    IN IF flt = FilterAll THEN Append(emps, employee)
       ELSE IF flt = FilterDeactivated
       THEN (IF user.Deleted THEN Append(emps, employee) ELSE emps)
       ELSE IF flt = FilterActive
       THEN (IF ~user.Deleted THEN Append(emps, employee) ELSE emps)
       ELSE emps

\* processUser(&employees, user, filter): the slice after the call
processUser(emps, user, flt) ==
    LET nameParts == Split(user.RealName)
        firstName == IF user.FirstName = <<>> /\ Len(nameParts) > 0
                     THEN nameParts[1] ELSE user.FirstName
        lastName  == IF user.LastName = <<>> /\ Len(nameParts) > 1
                     THEN nameParts[Len(nameParts)] ELSE user.LastName
        deactivatedDate == IF user.Deleted
                           THEN estimateDeactivatedDateFromJSON(user.Updated)
                           ELSE <<>>
        employee  == EmployeeInfo(firstName, lastName, user.Email, user.Title,
                                  user.Deleted, deactivatedDate)
    IN IF flt = FilterAll THEN Append(emps, employee)
       ELSE IF flt = FilterDeactivated
       THEN (IF user.Deleted THEN Append(emps, employee) ELSE emps)
       ELSE IF flt = FilterActive
       THEN (IF ~user.Deleted THEN Append(emps, employee) ELSE emps)
       ELSE emps

\* lines 110-114: the users of a page, the bots left out
RECURSIVE ProcessUsers(_, _, _)
ProcessUsers(emps, users, flt) ==
    IF users = <<>> THEN emps
    ELSE ProcessUsers(IF ~Head(users).IsBot THEN processUser(emps, Head(users), flt)
                      ELSE emps,
                      Tail(users), flt)

\* faulty variant: the loop runs once more
MorePagesInclusive(count) == count <= maxPaginationAttempts

\* line 90: the condition of the pagination loop
MorePages(count) == count < maxPaginationAttempts

\* the users of the directory: an active user with a profile, a deleted one
\* named by the real name only, a deleted bot, and a deleted user updated at
\* second 0 who has no name
UserAda ==
    User(<<"A","d","a"," ","L","o","v","e","l","a","c","e">>, <<"A","d","a">>,
         <<"L","o","v","e","l","a","c","e">>, <<"a","d","a","@","a","m","a",".","i","o">>,
         <<"E","n","g","i","n","e","e","r">>, FALSE, FALSE, 1700000000)
UserBo ==
    User(<<"B","o"," ","V","a","n"," ","D","y","k">>, <<>>, <<>>, <<>>, <<>>,
         TRUE, FALSE, 1647302400)
UserBot ==
    User(<<"D","e","p","l","o","y"," ","B","o","t">>, <<>>, <<>>, <<>>, <<>>,
         TRUE, TRUE, 1709251199)
UserGone == User(<<>>, <<>>, <<>>, <<>>, <<>>, TRUE, FALSE, 0)

\* what users.list answers a request with: an error, or a page of users with
\* the cursor of the next page ("" on the last page)
ErrorResponse == [kind |-> "error", users |-> <<>>, cursor |-> ""]
PageResponse(users, cursor) == [kind |-> "page", users |-> users, cursor |-> cursor]
Responses ==
    {ErrorResponse,
     PageResponse(<<UserAda, UserBo>>, "next"),
     PageResponse(<<UserBot, UserGone>>, "next"),
     PageResponse(<<UserBo, UserAda, UserBot>>, ""),
     PageResponse(<<>>, "")}

\* the inputs of SlackAMAEmployeesTool.Call
InputActive == <<"l","i","s","t"," ","A","c","t","i","v","e"," ","e","m","p","l","o","y","e","e","s">>
InputDeactivated == <<"D","e","a","c","t","i","v","a","t","e","d"," ","e","m","p","l","o","y","e","e","s">>
InputInactive == <<"i","n","a","c","t","i","v","e">>
InputAll == <<"a","l","l">>
KwDeactivated == <<"d","e","a","c","t","i","v","a","t","e","d">>
ToolInputs == {<<>>, InputActive, InputDeactivated, InputInactive, InputAll}

\* SlackAMAEmployeesTool.Call, lines 85-95: the filter of an input
FilterOf(input) ==
    LET inputLower == ToLower(input)
    IN IF Contains(inputLower, KwActive) /\ ~Contains(inputLower, KwDeactivated)
       THEN FilterActive
       ELSE IF Contains(inputLower, KwDeactivated) THEN FilterDeactivated
       ELSE FilterAll

\* ------------------------------------------------------ the tool interface
\* the names of the tools (Name, part_002 line 28 and part_001 line 30)
NameQueryJSON == "QueryJSON"
NameSearchAMAEmployees == "SearchAMAEmployees"

\* the input of a call: a text that is no JSON document, or the JSON object
\* with the members file_path and query
TextInput(text) == [object |-> FALSE, text |-> text, file_path |-> <<>>, query |-> <<>>]
ObjectInput(path, q) == [object |-> TRUE, text |-> <<>>, file_path |-> path, query |-> q]

\* json.Unmarshal([]byte(input), &queryInput), part_002 line 83
UnmarshalInput(input) ==
    IF input.object
    THEN [err |-> FALSE, FilePath |-> input.file_path, Query |-> input.query]
    ELSE [err |-> TRUE, FilePath |-> <<>>, Query |-> <<>>]

\* filepath.Clean for paths without ".." and without doubled separators:
\* leading "./" and a trailing separator are dropped, the empty path is "."
DropDotSlash(path) ==
    IF Len(path) >= 2 /\ path[1] = "." /\ path[2] = "/"
    THEN SubSeq(path, 3, Len(path)) ELSE path
DropTrailingSlash(path) ==
    IF Len(path) >= 2 /\ path[Len(path)] = "/"
    THEN SubSeq(path, 1, Len(path) - 1) ELSE path
Clean(path) ==
    LET p == DropTrailingSlash(DropDotSlash(path))
    IN IF p = <<>> THEN <<".">> ELSE p

\* the paths of the working directory
PathMissing == <<"m","i","s","s","i","n","g",".","j","s","o","n">>
PathData == <<"d","a","t","a">>
PathDataSlash == <<"d","a","t","a","/">>
PathLocked == <<"l","o","c","k","e","d",".","j","s","o","n">>
PathEmployees == <<"e","m","p","l","o","y","e","e","s",".","j","s","o","n">>
PathDotEmployees == <<".","/","e","m","p","l","o","y","e","e","s",".","j","s","o","n">>
PathObject == <<"o","b","j","e","c","t",".","j","s","o","n">>

\* what os.Stat and os.ReadFile find at a cleaned path: nothing, a directory,
\* a file that cannot be opened, or a file and its contents
FileSystem(path) ==
    IF path = PathData THEN [kind |-> "directory", contents |-> JsonNull]
    ELSE IF path = PathLocked THEN [kind |-> "unreadable", contents |-> JsonNull]
    ELSE IF path = PathEmployees
    THEN [kind |-> "file", contents |-> JsonArray(<<EmpJohn, EmpJane, EmpAnn>>)]
    ELSE IF path = PathObject THEN [kind |-> "file", contents |-> JsonObject]
    ELSE [kind |-> "missing", contents |-> JsonNull]

\* the texts of the outputs of the two Call methods
TxtNotJson == <<"n","o","t"," ","j","s","o","n">>
TxtErrorParse == <<"E","r","r","o","r",":"," ","i","n","v","a","l","i","d"," ","c","h","a","r","a","c","t","e","r"," ","'","o","'"," ","i","n"," ","l","i","t","e","r","a","l"," ","n","u","l","l"," ","(","e","x","p","e","c","t","i","n","g"," ","'","u","'",")">>
TxtErrorNoPath == <<"E","r","r","o","r",":"," ","N","o"," ","f","i","l","e"," ","p","a","t","h"," ","p","r","o","v","i","d","e","d">>
TxtErrorAccess == <<"E","r","r","o","r",":"," ","C","o","u","l","d"," ","n","o","t"," ","a","c","c","e","s","s"," ","f","i","l","e"," ","a","t"," ">>
TxtColonStat == <<":"," ","s","t","a","t"," ">>
TxtNoSuchFile == <<":"," ","n","o"," ","s","u","c","h"," ","f","i","l","e"," ","o","r"," ","d","i","r","e","c","t","o","r","y">>
TxtErrorPrefix == <<"E","r","r","o","r",":"," ">>
TxtIsDirectory == <<" ","i","s"," ","a"," ","d","i","r","e","c","t","o","r","y",","," ","n","o","t"," ","a"," ","f","i","l","e">>
TxtErrorRead == <<"E","r","r","o","r",":"," ","F","a","i","l","e","d"," ","t","o"," ","r","e","a","d"," ","f","i","l","e"," ">>
TxtColonOpen == <<":"," ","o","p","e","n"," ">>
TxtPermissionDenied == <<":"," ","p","e","r","m","i","s","s","i","o","n"," ","d","e","n","i","e","d">>
TxtErrorAuth == <<"E","r","r","o","r",":"," ","s","l","a","c","k"," ","a","u","t","h","e","n","t","i","c","a","t","i","o","n"," ","f","a","i","l","e","d",":"," ","i","n","v","a","l","i","d","_","a","u","t","h">>
TxtErrorMkdir == <<"E","r","r","o","r"," ","c","r","e","a","t","i","n","g"," ","d","a","t","a"," ","d","i","r","e","c","t","o","r","y",":"," ","m","k","d","i","r"," ","d","a","t","a",":"," ","p","e","r","m","i","s","s","i","o","n"," ","d","e","n","i","e","d">>
TxtErrorWrite == <<"E","r","r","o","r"," ","w","r","i","t","i","n","g"," ","e","m","p","l","o","y","e","e","s"," ","d","a","t","a"," ","t","o"," ","f","i","l","e",":"," ","o","p","e","n"," ">>
TxtNoSpace == <<":"," ","n","o"," ","s","p","a","c","e"," ","l","e","f","t"," ","o","n"," ","d","e","v","i","c","e">>
TxtSaved == <<"S","a","v","e","d"," ">>
TxtToFile == <<" ","e","m","p","l","o","y","e","e","s"," ","t","o"," ","f","i","l","e",":"," ">>
TxtEmployeesDash == <<"e","m","p","l","o","y","e","e","s","-">>
TxtHyphen == <<"-">>
TxtTimestamp == <<"2","0","2","4","0","1","1","5","-","0","9","3","0","0","0">>
TxtDotJson == <<".","j","s","o","n">>
TxtWorkDir == <<"/","w","o","r","k","/">>
TxtSlash == <<"/">>

\* part_001 lines 119-129: the name of the file of a fetch, in the directory
\* data, at the time the timestamp shows
FilterTypeOf(f) ==
    IF f = FilterActive THEN KwActive
    ELSE IF f = FilterDeactivated THEN KwDeactivated
    ELSE InputAll
FilePathOf(f) ==
    PathData \o TxtSlash \o TxtEmployeesDash \o FilterTypeOf(f) \o TxtHyphen
        \o TxtTimestamp \o TxtDotJson
\* filepath.Abs in the working directory /work
Abs(path) == TxtWorkDir \o path

\* the callbacks a handler has received: which one, and with what
Event(callback, arg) == [callback |-> callback, arg |-> arg]

\* part_002 lines 62-64 and part_001 lines 69-71: HandleToolStart, if there
\* is a handler
StartCallback(hasHandler, evs, input) ==
    IF hasHandler THEN Append(evs, Event("HandleToolStart", input)) ELSE evs

\* faulty variant: the deferred function is not there
DeferredEndMissing(hasHandler, evs, out) == evs

\* part_002 lines 71-75 and part_001 lines 78-82: the deferred function,
\* HandleToolEnd with the output, if there is a handler
DeferredEnd(hasHandler, evs, out) ==
    IF hasHandler THEN Append(evs, Event("HandleToolEnd", out)) ELSE evs

\* the inputs the two tools are called with
QueryToolQueries == {QueryWhenJohnDoe, LeadWhenWas, TailAsTable, LimitLast2}
QueryToolPaths ==
    {<<>>, PathMissing, PathData, PathDataSlash, PathLocked, PathEmployees,
     PathDotEmployees, PathObject}
QueryToolInputs ==
    {TextInput(TxtNotJson)}
        \cup {ObjectInput(p, q) : p \in QueryToolPaths, q \in QueryToolQueries}
SlackToolInputs == {TextInput(t) : t \in ToolInputs}

\* -------------------------------------------------------------------- state
VARIABLES
    pc,         \* where ProcessQuery is: idle, sort, limit, format, done
    jsonData,   \* the document ProcessQuery was called with
    rawQuery,   \* the query it was called with
    query,      \* the local query, lower-cased (line 38)
    found,      \* employees as decoded (line 70)
    ranked,     \* employees after the sort stage (line 112)
    employees,  \* the local slice employees
    output,     \* the returned text
    err         \* the returned error: "nil", or what failed

queryVars == <<pc, jsonData, rawQuery, query, found, ranked, employees, output, err>>

\* searchAMAEmployeesUsingStandardAPI and SearchAMAEmployees
VARIABLES
    slackPc,          \* where the fetch is: off, auth, loop, finish, done
    filter,           \* the parameter filter
    pagination,       \* the local pagination: its Users and previousResp
                      \* (<<>> for nil, else the cursor of the last page)
    paginationCount,  \* the local paginationCount
    totalUsers,       \* the local totalUsers
    slackEmployees,   \* the local slice employees of the fetch
    slackErr,         \* the error SearchAMAEmployees returns: "nil" or "auth"
    responses         \* what users.list has answered so far, in order

slackVars ==
    <<slackPc, filter, pagination, paginationCount, totalUsers, slackEmployees,
      slackErr, responses>>

\* JSONQueryTool.Call and SlackAMAEmployeesTool.Call
VARIABLES
    toolPc,      \* where the call is: off, call, query, fetch, return, returned
    tool,        \* the name of the tool that is called
    handler,     \* whether CallbacksHandler is not nil
    toolInput,   \* the parameter input
    events,      \* the callbacks the handler has received, in order
    toolOutput,  \* the local output
    toolReturn,  \* the returned text
    toolErr      \* the returned error: "nil", or what failed

toolVars ==
    <<toolPc, tool, handler, toolInput, events, toolOutput, toolReturn, toolErr>>

\* main
VARIABLES
    cliPc,       \* where main is: off, start, prompt, loop, leave, exited
    slackToken,  \* whether SLACK_TOKEN is set
    promptFlag,  \* the value of -prompt ("" when it is not given)
    quietFlag,   \* the value of -quiet
    stdin,       \* the lines of the standard input not yet read
    stdinEnd,    \* what follows the last line: "EOF" or "read error"
    scanned,     \* the texts scanner.Text() has returned, in order
    scannerErr,  \* scanner.Err(): "nil", "token too long" or "read error"
    processed,   \* the calls of Agent.ProcessPrompt: the prompt, and whether
                 \* it returned without error
    exitStatus,  \* the exit status of the process, -1 while it runs
    agentReady   \* whether agent.NewAgent has returned an agent

cliVars ==
    <<cliPc, slackToken, promptFlag, quietFlag, stdin, stdinEnd, scanned,
      scannerErr, processed, exitStatus, agentReady>>

vars == <<queryVars, slackVars, toolVars, cliVars>>

\* main is not running
CliOff ==
    /\ cliPc = "off"
    /\ slackToken = FALSE
    /\ promptFlag = <<>>
    /\ quietFlag = FALSE
    /\ stdin = <<>>
    /\ stdinEnd = "EOF"
    /\ scanned = <<>>
    /\ scannerErr = "nil"
    /\ processed = <<>>
    /\ exitStatus = -1
    /\ agentReady = FALSE

\* no tool is called
ToolOff ==
    /\ toolPc = "off"
    /\ tool = NameQueryJSON
    /\ handler = FALSE
    /\ toolInput = TextInput(<<>>)
    /\ events = <<>>
    /\ toolOutput = <<>>
    /\ toolReturn = <<>>
    /\ toolErr = "nil"

\* no fetch is running
SlackOff ==
    /\ slackPc = "off"
    /\ filter = FilterAll
    /\ pagination = [Users |-> <<>>, previousResp |-> <<>>]
    /\ paginationCount = 0
    /\ totalUsers = 0
    /\ slackEmployees = <<>>
    /\ slackErr = "nil"
    /\ responses = <<>>

\* no query is being processed
QueryOff ==
    /\ pc = "off"
    /\ jsonData = JsonNull
    /\ rawQuery = <<>>
    /\ query = <<>>
    /\ found = <<>>
    /\ ranked = <<>>
    /\ employees = <<>>
    /\ output = <<>>
    /\ err = "nil"

\* ProcessQuery is about to be called with a document and a query of the
\* input family
Init ==
    /\ SlackOff
    /\ ToolOff
    /\ CliOff
    /\ pc = "idle"
    /\ \E inp \in Inputs : jsonData = inp.doc /\ rawQuery = inp.q
    /\ query = <<>>
    /\ found = <<>>
    /\ ranked = <<>>
    /\ employees = <<>>
    /\ output = <<>>
    /\ err = "nil"

\* ProcessQuery(jsonData, query), lines 24-70: the status condition, then the
\* single-person lookup or the decoding of the filtered records
ProcessQuery(doc, q) ==
    /\ UNCHANGED <<jsonData, rawQuery, slackVars, toolVars, cliVars>>
    /\ LET lq  == ToLower(q)
           jq  == ApplyStatusFilter(Reset(FromString(doc)), lq)
           dec == DecodeEmployees(Get(jq))
       IN /\ query' = lq
          /\ IF isSpecificEmployeeSearch(lq)
             THEN /\ output' = findSpecificEmployee(jq, lq)
                  /\ err' = "nil"
                  /\ pc' = "done"
                  /\ UNCHANGED <<found, ranked, employees>>
             ELSE IF dec.err
             THEN /\ output' = <<<<dec.text>>>>
                  /\ err' = "unmarshal"
                  /\ pc' = "done"
                  /\ UNCHANGED <<found, ranked, employees>>
             ELSE /\ employees' = dec.employees
                  /\ found' = dec.employees
                  /\ pc' = "sort"
                  /\ UNCHANGED <<ranked, output, err>>

\* lines 72-109: sort.Slice when the query asks for the date order
SortByDate ==
    /\ pc = "sort"
    /\ IF WantsDateSort(query)
       THEN employees' \in SortSlice(employees)
       ELSE employees' = employees
    /\ ranked' = employees'
    /\ pc' = "limit"
    /\ UNCHANGED <<jsonData, rawQuery, query, found, output, err, slackVars,
                   toolVars, cliVars>>

\* lines 111-146: the limit
LimitResults ==
    /\ pc = "limit"
    /\ employees' = ApplyLimit(query, employees)
    /\ pc' = "format"
    /\ UNCHANGED <<jsonData, rawQuery, query, found, ranked, output, err, slackVars,
                   toolVars, cliVars>>

\* lines 148-157: the table or the list
Format ==
    /\ pc = "format"
    /\ output' = IF WantsTable(query) THEN FormatAsMarkdownTable(employees)
                 ELSE FormatResults(employees)
    /\ err' = "nil"
    /\ pc' = "done"
    /\ UNCHANGED <<jsonData, rawQuery, query, found, ranked, employees, slackVars,
                   toolVars, cliVars>>

\* the call of ProcessQuery
Call ==
    /\ pc = "idle"
    /\ ProcessQuery(jsonData, rawQuery)

Next ==
    \/ Call
    \/ SortByDate
    \/ LimitResults
    \/ Format

Spec == Init /\ [][Next]_vars

\* --------------------------------------------------------- the Slack fetch
\* SearchAMAEmployees(filter) is about to be called
InitSlack ==
    /\ QueryOff
    /\ ToolOff
    /\ CliOff
    /\ slackPc = "auth"
    /\ filter \in {FilterAll, FilterActive, FilterDeactivated}
    /\ pagination = [Users |-> <<>>, previousResp |-> <<>>]
    /\ paginationCount = 0
    /\ totalUsers = 0
    /\ slackEmployees = <<>>
    /\ slackErr = "nil"
    /\ responses = <<>>

\* SearchAMAEmployees, lines 47-64: AuthTest fails and the error is returned,
\* or the fetch starts (lines 78-87)
Authenticate ==
    /\ slackPc = "auth"
    /\ \E authenticated \in BOOLEAN :
          IF authenticated
          THEN /\ slackPc' = "loop"
               /\ UNCHANGED slackErr
          ELSE /\ slackPc' = "done"
               /\ slackErr' = "auth"
    /\ UNCHANGED <<filter, pagination, paginationCount, totalUsers, slackEmployees,
                   responses, queryVars, toolVars, cliVars>>

\* one turn of the loop of lines 90-115: pagination.Next (no request when the
\* last page had an empty cursor, else a request users.list answers with a
\* page or an error), the tests of Done and Failure, and the users of the page
NextPage ==
    /\ slackPc = "loop"
    /\ MorePages(paginationCount)
    /\ IF pagination.previousResp # <<>> /\ pagination.previousResp[1] = ""
       THEN /\ slackPc' = "finish"
            /\ UNCHANGED <<pagination, paginationCount, totalUsers, slackEmployees,
                           responses>>
       ELSE \E resp \in Responses :
               /\ responses' = Append(responses, resp)
               /\ paginationCount' = paginationCount + 1
               /\ IF resp.kind = "error"
                  THEN /\ slackPc' = "finish"
                       /\ pagination' =
                             [pagination EXCEPT
                                !.previousResp = IF @ = <<>> THEN <<"">> ELSE @]
                       /\ UNCHANGED <<totalUsers, slackEmployees>>
                  ELSE /\ slackPc' = "loop"
                       /\ pagination' = [Users |-> resp.users,
                                         previousResp |-> <<resp.cursor>>]
                       /\ totalUsers' = totalUsers + Len(resp.users)
                       /\ slackEmployees' =
                             ProcessUsers(slackEmployees, resp.users, filter)
    /\ UNCHANGED <<filter, slackErr, queryVars, toolVars, cliVars>>

\* the loop is left; lines 117-123 and the return of SearchAMAEmployees
\* (lines 65-73)
Finish ==
    /\ \/ slackPc = "finish"
       \/ slackPc = "loop" /\ ~MorePages(paginationCount)
    /\ slackPc' = "done"
    /\ UNCHANGED <<filter, pagination, paginationCount, totalUsers, slackEmployees,
                   slackErr, responses, queryVars, toolVars, cliVars>>

NextSlack ==
    \/ Authenticate
    \/ NextPage
    \/ Finish

SpecSlack == InitSlack /\ [][NextSlack]_vars

\* the fetch is a sequential program: it goes on as long as it has a step
SpecSlackLive == SpecSlack /\ WF_vars(NextSlack)

\* ----------------------------------------------------------- the tool calls
\* a tool is about to be called, with or without a handler
InitTool ==
    /\ QueryOff
    /\ SlackOff
    /\ CliOff
    /\ toolPc = "call"
    /\ handler \in BOOLEAN
    /\ \/ tool = NameQueryJSON /\ toolInput \in QueryToolInputs
       \/ tool = NameSearchAMAEmployees /\ toolInput \in SlackToolInputs
    /\ events = <<>>
    /\ toolOutput = <<>>
    /\ toolReturn = <<>>
    /\ toolErr = "nil"

\* JSONQueryTool.Call, part_002 lines 60-118: the start callback, the input,
\* the file, and the call of ProcessQuery; each failure sets output and returns
JSONQueryToolCall ==
    /\ toolPc = "call"
    /\ tool = NameQueryJSON
    /\ events' = StartCallback(handler, events, toolInput)
    /\ toolReturn' = <<>>
    /\ LET queryInput == UnmarshalInput(toolInput)
           filePath   == Clean(queryInput.FilePath)
           fileInfo   == FileSystem(filePath)
       IN IF queryInput.err
          THEN /\ toolOutput' = <<<<TxtErrorParse>>>>
               /\ toolErr' = "parse"
               /\ toolPc' = "return"
               /\ UNCHANGED queryVars
          ELSE IF queryInput.FilePath = <<>>
          THEN /\ toolOutput' = <<<<TxtErrorNoPath>>>>
               /\ toolErr' = "no file path"
               /\ toolPc' = "return"
               /\ UNCHANGED queryVars
          ELSE IF fileInfo.kind = "missing"
          THEN /\ toolOutput' = <<<<TxtErrorAccess, filePath, TxtColonStat, filePath,
                                    TxtNoSuchFile>>>>
               /\ toolErr' = "stat"
               /\ toolPc' = "return"
               /\ UNCHANGED queryVars
          ELSE IF fileInfo.kind = "directory"
          THEN /\ toolOutput' = <<<<TxtErrorPrefix, filePath, TxtIsDirectory>>>>
               /\ toolErr' = "directory"
               /\ toolPc' = "return"
               /\ UNCHANGED queryVars
          ELSE IF fileInfo.kind = "unreadable"
          THEN /\ toolOutput' = <<<<TxtErrorRead, filePath, TxtColonOpen, filePath,
                                    TxtPermissionDenied>>>>
               /\ toolErr' = "read"
               /\ toolPc' = "return"
               /\ UNCHANGED queryVars
          ELSE /\ jsonData' = fileInfo.contents
               /\ rawQuery' = queryInput.Query
               /\ pc' = "idle"
               /\ toolPc' = "query"
               /\ UNCHANGED <<query, found, ranked, employees, output, err,
                              toolOutput, toolErr>>
    /\ UNCHANGED <<tool, handler, toolInput, slackVars, cliVars>>

\* part_002 lines 118-124: ProcessQuery has returned; its error text becomes
\* the output behind "Error: ", which is the text ProcessQuery returned too
QueryReturn ==
    /\ toolPc = "query"
    /\ pc = "done"
    /\ toolOutput' = output
    /\ toolErr' = err
    /\ toolReturn' = IF err = "nil" THEN output ELSE <<>>
    /\ toolPc' = "return"
    /\ UNCHANGED <<tool, handler, toolInput, events, queryVars, slackVars,
                   cliVars>>

\* SlackAMAEmployeesTool.Call, part_001 lines 67-98: the start callback, the
\* filter of the input, and the call of SearchAMAEmployees
SlackToolCall ==
    /\ toolPc = "call"
    /\ tool = NameSearchAMAEmployees
    /\ events' = StartCallback(handler, events, toolInput)
    /\ filter' = FilterOf(toolInput.text)
    /\ slackPc' = "auth"
    /\ toolPc' = "fetch"
    /\ UNCHANGED <<tool, handler, toolInput, toolOutput, toolReturn, toolErr,
                   pagination, paginationCount, totalUsers, slackEmployees,
                   slackErr, responses, queryVars, cliVars>>

\* part_001 lines 99-147: SearchAMAEmployees has returned; its error, the
\* directory that cannot be made, the file that cannot be written, or the
\* path of the file (json.Marshal of a slice of EmployeeInfo does not fail)
FetchReturn ==
    /\ toolPc = "fetch"
    /\ slackPc = "done"
    /\ IF slackErr # "nil"
       THEN /\ toolOutput' = <<<<TxtErrorAuth>>>>
            /\ toolReturn' = toolOutput'
            /\ toolErr' = "fetch"
       ELSE \E disk \in {"no directory", "no write", "written"} :
               LET filePath == FilePathOf(filter)
               IN IF disk = "no directory"
                  THEN /\ toolOutput' = <<<<TxtErrorMkdir>>>>
                       /\ toolReturn' = toolOutput'
                       /\ toolErr' = "mkdir"
                  ELSE IF disk = "no write"
                  THEN /\ toolOutput' = <<<<TxtErrorWrite, filePath, TxtNoSpace>>>>
                       /\ toolReturn' = toolOutput'
                       /\ toolErr' = "write"
                  ELSE /\ toolOutput' = <<<<TxtSaved, Itoa(Len(slackEmployees)),
                                            TxtToFile, Abs(filePath)>>>>
                       /\ toolReturn' = <<<<Abs(filePath)>>>>
                       /\ toolErr' = "nil"
    /\ toolPc' = "return"
    /\ UNCHANGED <<tool, handler, toolInput, events, queryVars, slackVars,
                   cliVars>>

\* the return of either Call: the deferred function runs
ToolEnd ==
    /\ toolPc = "return"
    /\ events' = DeferredEnd(handler, events, toolOutput)
    /\ toolPc' = "returned"
    /\ UNCHANGED <<tool, handler, toolInput, toolOutput, toolReturn, toolErr,
                   queryVars, slackVars, cliVars>>

NextTool ==
    \/ JSONQueryToolCall
    \/ Call
    \/ SortByDate
    \/ LimitResults
    \/ Format
    \/ QueryReturn
    \/ SlackToolCall
    \/ Authenticate
    \/ NextPage
    \/ Finish
    \/ FetchReturn
    \/ ToolEnd

SpecTool == InitTool /\ [][NextTool]_vars

\* ------------------------------------------------------- the command line
\* bufio.MaxScanTokenSize, the size the buffer of the scanner of line 179
\* grows to
MaxScanTokenSize == 64 * 1024

\* a line of the standard input: its first characters, and how many more
\* characters (no spaces) follow them before the end of the line
Line(text) == [text |-> text, more |-> 0]
LongLine(text) == [text |-> text, more |-> MaxScanTokenSize - Len(text)]
LineLength(line) == Len(line.text) + line.more

\* scanner.Scan() on a line: the line is a token when it fits the buffer with
\* its end, else the scanner stops with bufio.ErrTooLong
Fits(line) == LineLength(line) < MaxScanTokenSize

\* strings.TrimSpace, line 191
RECURSIVE TrimLeft(_)
TrimLeft(text) ==
    IF text # <<>> /\ IsSpace(Head(text)) THEN TrimLeft(Tail(text)) ELSE text
RECURSIVE TrimRight(_)
TrimRight(text) ==
    IF text # <<>> /\ IsSpace(text[Len(text)])
    THEN TrimRight(SubSeq(text, 1, Len(text) - 1)) ELSE text
TrimSpace(text) == TrimRight(TrimLeft(text))

KwExit == <<"e","x","i","t">>

\* faulty variant: only "exit" in lower case leaves the loop
IsExitCommandExact(input) == input = KwExit

\* line 197: strings.ToLower(input) == "exit"
IsExitCommand(input) == ToLower(input) = KwExit

\* the lines of the standard input and the values of -prompt
TextBlank == <<" ", "\t", " ">>
TextExitPadded == <<" "," ","E","X","I","T"," ">>
TextExitNow == <<" ","e","x","i","t"," ","n","o","w">>
TextHowMany == <<"H","o","w"," ","m","a","n","y"," ","e","m","p","l","o","y","e","e","s"," ","a","r","e"," ","a","c","t","i","v","e","?">>
TextLong == <<"W","h","o">>
PromptLatest == <<"W","h","o"," ","a","r","e"," ","t","h","e"," ","l","a","t","e","s","t"," ","3","0"," ","d","e","a","c","t","i","v","a","t","e","d"," ","e","m","p","l","o","y","e","e","s","?">>
StdinLines ==
    {Line(<<>>), Line(TextBlank), Line(KwExit), Line(TextExitPadded),
     Line(TextExitNow), Line(TextHowMany), LongLine(TextLong)}
PromptFlags == {<<>>, PromptLatest}

\* main is started: the environment, the flags and the standard input
InitCLI ==
    /\ QueryOff
    /\ SlackOff
    /\ ToolOff
    /\ cliPc = "start"
    /\ slackToken \in BOOLEAN
    /\ promptFlag \in PromptFlags
    /\ quietFlag \in BOOLEAN
    /\ stdin \in SeqsUpTo(StdinLines, MaxLines)
    /\ stdinEnd \in {"EOF", "read error"}
    /\ scanned = <<>>
    /\ scannerErr = "nil"
    /\ processed = <<>>
    /\ exitStatus = -1
    /\ agentReady = FALSE

\* main, lines 71-113 and the tests of lines 116 and 154: without SLACK_TOKEN
\* and when NewAgent fails the process exits with status 1; else main goes on
\* to the single prompt or to the loop
Initialize ==
    /\ cliPc = "start"
    /\ IF ~slackToken
       THEN /\ exitStatus' = 1
            /\ cliPc' = "exited"
            /\ UNCHANGED agentReady
       ELSE \E created \in BOOLEAN :
               /\ agentReady' = created
               /\ IF created
                  THEN /\ cliPc' = IF promptFlag # <<>> THEN "prompt" ELSE "loop"
                       /\ UNCHANGED exitStatus
                  ELSE /\ exitStatus' = 1
                       /\ cliPc' = "exited"
    /\ UNCHANGED <<slackToken, promptFlag, quietFlag, stdin, stdinEnd, scanned,
                   scannerErr, processed, queryVars, slackVars, toolVars>>

\* lines 115-152: the prompt of -prompt is processed, and the process exits
\* with 1 when ProcessPrompt returns an error, else with 0 (also when the
\* response cannot be rendered)
ProcessSinglePrompt ==
    /\ cliPc = "prompt"
    /\ \E ok \in BOOLEAN :
          /\ processed' = Append(processed, [prompt |-> promptFlag, ok |-> ok])
          /\ exitStatus' = IF ok THEN 0 ELSE 1
    /\ cliPc' = "exited"
    /\ UNCHANGED <<slackToken, promptFlag, quietFlag, stdin, stdinEnd, scanned,
                   scannerErr, agentReady, queryVars, slackVars, toolVars>>

\* one turn of the loop of lines 180-262: Scan (false at the end of the
\* input, at a read error and at a line that does not fit), the trimmed text,
\* the empty input, the exit command, and ProcessPrompt, whose error is shown
\* with or without -quiet before the next turn
ReadLine ==
    /\ cliPc = "loop"
    /\ IF stdin = <<>>
       THEN /\ scannerErr' = IF stdinEnd = "EOF" THEN "nil" ELSE "read error"
            /\ cliPc' = "leave"
            /\ UNCHANGED <<stdin, scanned, processed>>
       ELSE IF ~Fits(Head(stdin))
       THEN /\ scannerErr' = "token too long"
            /\ cliPc' = "leave"
            /\ UNCHANGED <<stdin, scanned, processed>>
       ELSE LET input == TrimSpace(Head(stdin).text)
            IN /\ stdin' = Tail(stdin)
               /\ scanned' = Append(scanned, Head(stdin).text)
               /\ UNCHANGED scannerErr
               /\ IF input = <<>>
                  THEN /\ cliPc' = "loop"
                       /\ UNCHANGED processed
                  ELSE IF IsExitCommand(input)
                  THEN /\ cliPc' = "leave"
                       /\ UNCHANGED processed
                  ELSE /\ \E ok \in BOOLEAN :
                             processed' =
                                 Append(processed, [prompt |-> input, ok |-> ok])
                       /\ cliPc' = "loop"
    /\ UNCHANGED <<slackToken, promptFlag, quietFlag, stdinEnd, exitStatus,
                   agentReady, queryVars, slackVars, toolVars>>

\* lines 264-282: the error of the scanner is shown, and main returns
Leave ==
    /\ cliPc = "leave"
    /\ exitStatus' = 0
    /\ cliPc' = "exited"
    /\ UNCHANGED <<slackToken, promptFlag, quietFlag, stdin, stdinEnd, scanned,
                   scannerErr, processed, agentReady, queryVars, slackVars,
                   toolVars>>

NextCLI ==
    \/ Initialize
    \/ ProcessSinglePrompt
    \/ ReadLine
    \/ Leave

SpecCLI == InitCLI /\ [][NextCLI]_vars

\* --------------------------------------------------------------- properties
\* What the properties below speak of.
Range(s) == {s[i] : i \in 1..Len(s)}
Pos(s, e) == CHOOSE k \in 1..Len(s) : s[k] = e
Count(s, e) == Cardinality({i \in 1..Len(s) : s[i] = e})
IsPermutation(s, t) ==
    Len(s) = Len(t) /\ \A e \in Range(s) \cup Range(t) : Count(s, e) = Count(t, e)

\* the document of the call is a collection of records of the record model
Records ==
    /\ jsonData.kind = "array"
    /\ \A i \in 1..Len(jsonData.items) : FitsModel(jsonData.items[i])
\* the call was a bulk query (not a single-person lookup) over a collection
\* of records
Bulk == Records /\ ~isSpecificEmployeeSearch(query)
\* ProcessQuery has returned
Returned == pc = "done"
\* ProcessQuery is past its sort stage
Ranked == pc \in {"limit", "format", "done"} /\ Bulk

\* the records of items whose deactivated flag matches the filter f
MatchesStatus(e, f) ==
    f = "ALL" \/ (f = "DEACTIVATED" /\ e.deactivated) \/ (f = "ACTIVE" /\ ~e.deactivated)
KeepStatus(items, f) == SelectSeq(items, LAMBDA e : MatchesStatus(e, f))

\* The limit patterns of the words w: word i is "last", "top" or "latest"
\* before a positive integer, or a positive integer before "employee(s)".
IsPositive(x) == Atoi(x).ok /\ Atoi(x).num > 0
KeywordPatternAt(w, i) ==
    i < Len(w) /\ w[i] \in {KwLast, KwTop, KwLatest} /\ IsPositive(w[i + 1])
CountPatternAt(w, i) ==
    i < Len(w) /\ w[i + 1] \in {KwEmployees, KwEmployee} /\ IsPositive(w[i])
PatternsOf(w) ==
    LET idx == {i \in 1..Len(w) : KeywordPatternAt(w, i) \/ CountPatternAt(w, i)}
        num == [i \in idx |-> IF KeywordPatternAt(w, i) THEN Atoi(w[i + 1]).num
                              ELSE Atoi(w[i]).num]
        left == IF idx = {} THEN 0 ELSE CHOOSE i \in idx : \A j \in idx : i <= j
    IN [has   |-> idx # {},
        nums  |-> {num[i] : i \in idx},
        \* of the leftmost pattern: its number and its keyword ("" for a count)
        first |-> IF idx = {} THEN 0 ELSE num[left],
        word  |-> IF idx # {} /\ KeywordPatternAt(w, left) THEN w[left] ELSE <<>>]
\* the limit patterns of the query of the call
Patterns == PatternsOf(Fields(query))

\* the text shows exactly the records of recs, in their order: one list line
\* or table row each, or the no-results message when there is none
ShowsRecord(line, e, table) ==
    IF table
    THEN /\ line[2] = e.first_name \o <<" ">> \o e.last_name
         /\ line[8] = (IF e.deactivated THEN TxtDeactivated ELSE TxtActive)
    ELSE /\ line[3] = e.first_name
         /\ line[5] = e.last_name
Shows(text, recs, table) ==
    IF recs = <<>> THEN text = <<<<MsgNoEmployees>>>>
    ELSE /\ Len(text) = Len(recs) + 2
         /\ \A i \in 1..Len(recs) : ShowsRecord(text[i + 2], recs[i], table)

\* the order of s by date: the records time.Parse accepts the date of come
\* first, most recent first, before all the others
HasDate(e) == ParseDate(e.deactivated_date).ok
DateOf(e) == ParseDate(e.deactivated_date).t
\* (each record against the next one, which orders every pair)
DateOrdered(s) ==
    \A i \in 1..(Len(s) - 1) :
        LET a == ParseDate(s[i].deactivated_date)
            b == ParseDate(s[i + 1].deactivated_date)
        IN /\ (b.ok => a.ok)
           /\ (a.ok /\ b.ok => a.t >= b.t)

\* C1: a bulk query with no sort keyword and no limit pattern below the number
\* of matching records renders exactly the records of the collection whose
\* deactivated flag matches the status filter, in the collection's order.
C1_FilterSubsequence ==
    (Returned /\ Bulk /\ ~WantsDateSort(query))
    => LET kept == KeepStatus(jsonData.items, StatusFilter(query))
       IN (\A n \in Patterns.nums : n >= Len(kept))
          => (err = "nil" /\ Shows(output, kept, WantsTable(query)))

\* C1 witness: an active-only answer out of a collection holding both kinds
C1_Witness ==
    /\ Returned /\ Bulk /\ ~WantsDateSort(query) /\ ~Patterns.has
    /\ StatusFilter(query) = "ACTIVE"
    /\ Len(jsonData.items) = 2 /\ Len(employees) = 1
    /\ Len(output) = 3

\* C2: when the query asks for the date order, the sorted slice is a
\* permutation of the filtered records in which the records with a parseable
\* date come first, most recent first, before every record with an empty or
\* unparseable date.
C2_SortedByDate ==
    (Ranked /\ WantsDateSort(query))
    => /\ IsPermutation(ranked, KeepStatus(jsonData.items, StatusFilter(query)))
       /\ DateOrdered(ranked)

\* C2 witness: a sort that had to move a dated record in front of an undated
\* one and a later date in front of an earlier one
C2_Witness ==
    /\ Ranked /\ WantsDateSort(query) /\ Len(found) = 3
    /\ ~HasDate(found[1]) /\ HasDate(found[2]) /\ HasDate(found[3])
    /\ DateOf(found[3]) > DateOf(found[2])
    /\ ranked = <<found[3], found[2], found[1]>>

\* C3: the date sort is stable: two records the comparator does not tell apart
\* keep, in the sorted slice, the order they had in the filtered records.
C3_StableSort ==
    (Ranked /\ WantsDateSort(query))
    => \A i, j \in 1..Len(found) :
          (i < j /\ ~Less(found[i], found[j]) /\ ~Less(found[j], found[i]))
          => Pos(ranked, found[i]) < Pos(ranked, found[j])

C4_WitnessNoOp ==
    /\ Returned /\ Bulk /\ Patterns.has
    /\ Patterns.nums = {5} /\ Len(ranked) = 2 /\ employees = ranked

\* C5: first match wins: the leftmost limit pattern alone decides the limit,
\* also when its number is not below the number of records (then nothing is
\* cut, whatever patterns follow).
C5_FirstMatchWins ==
    (pc \in {"format", "done"} /\ Bulk /\ Patterns.has)
    => employees = IF Patterns.first < Len(ranked)
                   THEN SubSeq(ranked, 1, Patterns.first)
                   ELSE ranked

\* the records of the answer are the most recent of the filtered ones, most
\* recent first: no record left out sorts before one that was kept
MostRecentFirst ==
    /\ DateOrdered(employees)
    /\ Range(employees) \subseteq Range(found)
    /\ \A x \in Range(found) \ Range(employees) :
          \A e \in Range(employees) : ~Less(x, e)

\* C6: sorting happens before limiting: with a sort keyword and a limit L below
\* the number of filtered records, the answer is the L most recent of all the
\* filtered records, most recent first.
C6_SortBeforeLimit ==
    (/\ pc \in {"format", "done"} /\ Bulk /\ WantsDateSort(query)
     /\ Patterns.has /\ Patterns.first < Len(found))
    => /\ Len(employees) = Patterns.first
       /\ MostRecentFirst

\* C6 witness: the two most recent of three, which are not the first two
\* records of the input, the most recent (the last of the input) first
C6_Witness ==
    /\ Returned /\ Bulk /\ WantsDateSort(query) /\ Patterns.has
    /\ Patterns.first = 2 /\ Len(found) = 3
    /\ HasDate(found[1]) /\ ~HasDate(found[2]) /\ HasDate(found[3])
    /\ DateOf(found[1]) < DateOf(found[3])
    /\ employees = <<found[3], found[1]>>

\* C7: a query whose limit N comes with the keyword "latest" or "top", over
\* more than N deactivated records, returns the N most recently deactivated
\* records, most recent first.
C7_LatestMeansMostRecent ==
    (/\ Returned /\ Bulk /\ StatusFilter(query) = "DEACTIVATED"
     /\ Patterns.word \in {KwLatest, KwTop}
     /\ Patterns.first < Len(found))
    => /\ Len(employees) = Patterns.first
       /\ MostRecentFirst

\* C8: a document that is not JSON makes ProcessQuery return an error, for
\* every query.
C8_MalformedIsError ==
    (Returned /\ jsonData.kind = "malformed") => err # "nil"

\* a word pair of the lookup that some record of the collection matches
PairMatches(w, i) ==
    /\ Len(w[i]) >= 3 /\ Len(w[i + 1]) >= 3
    /\ \E e \in Range(jsonData.items) :
          \/ Contains(ToLower(e.first_name), w[i])
          \/ Contains(ToLower(e.last_name), w[i + 1])
\* no word pair of the query matches a record
NobodyMatches ==
    LET w == Fields(query) IN \A i \in 1..(Len(w) - 1) : ~PairMatches(w, i)

\* C9: a query that matches nothing is no error: a bulk query whose filter
\* leaves no record returns the fixed no-results text in list and in table
\* format, and a lookup none of whose word pairs matches the fixed not-found
\* text, both with a nil error.
C9_NoMatchIsNoError ==
    /\ (/\ Returned /\ Bulk
        /\ KeepStatus(jsonData.items, StatusFilter(query)) = <<>>)
       => (err = "nil" /\ output = <<<<MsgNoEmployees>>>> /\ MsgNoEmployees # <<>>)
    /\ (/\ Returned /\ Records /\ isSpecificEmployeeSearch(query)
        /\ NobodyMatches)
       => (err = "nil" /\ output = <<<<MsgNotFound>>>> /\ MsgNotFound # <<>>)

\* C9 witness: the status filter left nothing of a non-empty collection, in
\* table format
C9_Witness ==
    /\ Returned /\ Bulk /\ WantsTable(query)
    /\ Len(jsonData.items) > 0
    /\ KeepStatus(jsonData.items, StatusFilter(query)) = <<>>

\* C9 witness of the lookup that finds nobody
C9_WitnessLookup ==
    /\ Returned /\ Records /\ isSpecificEmployeeSearch(query)
    /\ Len(jsonData.items) > 0
    /\ NobodyMatches
    /\ output = <<<<MsgNotFound>>>>

\* the filter the claimed precedence gives the lower-cased text
ClaimedFilter(text) ==
    IF Contains(text, KwDeactivat) \/ Contains(text, KwTerminat) THEN "DEACTIVATED"
    ELSE IF Contains(text, KwActive) THEN "ACTIVE"
    ELSE "ALL"

\* C10: the records a bulk query finds are those of the filter the precedence
\* gives: DEACTIVATED when the lower-cased text contains "deactivat" or
\* "terminat" (also when it contains "active"), else ACTIVE when it contains
\* "active", else ALL.
C10_StatusPrecedence ==
    (pc # "idle" /\ Bulk)
    => found = KeepStatus(jsonData.items, ClaimedFilter(ToLower(rawQuery)))

\* C10 witness: a text with "active" and "terminat" finds the deactivated
\* record of a collection holding both kinds
C10_Witness ==
    /\ Returned /\ Bulk
    /\ Contains(ToLower(rawQuery), KwActive) /\ Contains(ToLower(rawQuery), KwTerminat)
    /\ rawQuery # ToLower(rawQuery)
    /\ Len(jsonData.items) = 2 /\ Len(found) = 1 /\ found[1].deactivated

\* the answer is that of the single-person lookup: the narrative of a record
\* or the not-found text
TookLookup ==
    output = <<<<MsgNotFound>>>> \/ (output # <<>> /\ output[1][1] = TxtEmployee)

\* the classification the claim gives the lower-cased text
ClaimedLookup(text) ==
    \/ \E p \in SpecificPatterns : Contains(text, p)
    \/ /\ Contains(text, KwFind)
       /\ \A c \in {KwFindLast, KwFindTop, KwFindTheLast, KwFindTheTop} :
             ~Contains(text, c)

\* C11: a query is answered by the single-person lookup iff it contains one of
\* the fixed lookup phrases, or contains "find" and none of "find last",
\* "find top", "find the last", "find the top"; every other query goes
\* through the bulk filter, sort and limit.
C11_LookupDetection ==
    (pc # "idle")
    => (ClaimedLookup(ToLower(rawQuery)) <=> (Returned /\ TookLookup))

\* C11 witness: "find last 2 ..." answered with the list of the two records
C11_Witness ==
    /\ Returned /\ Records /\ Contains(query, KwFindLast)
    /\ ~TookLookup /\ Len(ranked) = 2 /\ Len(output) = 4

\* C11 witness of "find" without a count pattern, answered by the lookup
C11_WitnessFind ==
    /\ Returned /\ Records /\ Contains(query, KwFind)
    /\ \A p \in SpecificPatterns : ~Contains(query, p)
    /\ TookLookup /\ output # <<<<MsgNotFound>>>>

\* the record e matches the word pair at i of w
RecordMatches(e, w, i) ==
    /\ Len(w[i]) >= 3 /\ Len(w[i + 1]) >= 3
    /\ \/ Contains(ToLower(e.first_name), w[i])
       \/ Contains(ToLower(e.last_name), w[i + 1])

\* the record the claimed selection answers with: the first record, in
\* collection order, that matches the leftmost pair some record matches
\* (hit = FALSE when no pair matches a record)
ClaimedAnswer ==
    LET w     == Fields(query)
        items == jsonData.items
        pairs == {i \in 1..(Len(w) - 1) :
                     \E k \in 1..Len(items) : RecordMatches(items[k], w, i)}
        pair  == CHOOSE i \in pairs : \A j \in pairs : i <= j
        recs  == {k \in 1..Len(items) : RecordMatches(items[k], w, pair)}
    IN IF pairs = {} THEN [hit |-> FALSE, pair |-> 0, rec |-> 0]
       ELSE [hit |-> TRUE, pair |-> pair,
             rec |-> CHOOSE k \in recs : \A j \in recs : k <= j]

\* the first line of the text is the narrative's, naming the record e
NamesRecord(text, e) ==
    text # <<>> /\ text[1] = <<TxtEmployee, e.first_name, TxtSpace, e.last_name>>

\* C12: over a collection of records, the lookup tries the adjacent word
\* pairs left to right, skipping a pair with a word under 3 characters; a
\* record matches when its first name contains the first word or its last
\* name the second (case-insensitive); the narrative is that of the first
\* record, in collection order, matching the leftmost pair any record
\* matches, and the not-found text when there is no such pair.
C12_LookupSelection ==
    (Returned /\ Records /\ isSpecificEmployeeSearch(query))
    => LET a == ClaimedAnswer
       IN /\ err = "nil"
          /\ IF a.hit THEN NamesRecord(output, jsonData.items[a.rec])
             ELSE output = <<<<MsgNotFound>>>>

\* C12 witness: "when was John Doe ..." over John Doe, then Ann Wasik: the
\* pair "when was" matches Ann Wasik's last name, and she is the answer
C12_Witness ==
    /\ Returned /\ Records /\ isSpecificEmployeeSearch(query)
    /\ Contains(query, <<"w","h","e","n"," ","w","a","s"," ","j","o","h","n"," ","d","o","e">>)
    /\ jsonData.items = <<EmpJohn, EmpAnn>>
    /\ ClaimedAnswer.pair = 1 /\ ClaimedAnswer.rec = 2
    /\ NamesRecord(output, EmpAnn)

\* C12 witness of a later pair: "john doe" is the first pair a record matches
C12_WitnessLaterPair ==
    /\ Returned /\ Records /\ isSpecificEmployeeSearch(query)
    /\ Len(jsonData.items) = 2 /\ jsonData.items[2] = EmpJohn
    /\ ClaimedAnswer.pair = 3 /\ ClaimedAnswer.rec = 2
    /\ NamesRecord(output, EmpJohn)

\* the elements of the document that fit the record model, in their order
WellFormed == SelectSeq(jsonData.items, FitsModel)

\* C13: an element of the collection that does not fit the record model is
\* skipped: a bulk query returns a nil error and, with no sort keyword and no
\* limit below the number of matching records, renders the well-formed
\* records that match the status filter, in the collection's order.
C13_MisfitsSkipped ==
    (Returned /\ jsonData.kind = "array" /\ ~isSpecificEmployeeSearch(query))
    => /\ err = "nil"
       /\ LET kept == KeepStatus(WellFormed, StatusFilter(query))
          IN (~WantsDateSort(query) /\ \A n \in Patterns.nums : n >= Len(kept))
             => Shows(output, kept, WantsTable(query))

\* a record without a date time.Parse accepts: an empty or an unparseable one
Undated(e) == ~HasDate(e)

\* C14: the comparator takes an unparseable date for an absent one: in the
\* sorted slice no record without a parseable date precedes one with a
\* parseable date, the comparator orders no two records without a parseable
\* date (an unparseable date against an empty one included), and so the
\* insertion sort of a slice of at most MaxInsertion records leaves them in
\* the order they had.
C14_UnparseableAsAbsent ==
    (Ranked /\ WantsDateSort(query))
    => /\ \A i, j \in 1..Len(ranked) :
             i < j => ~(Undated(ranked[i]) /\ HasDate(ranked[j]))
       /\ \A i, j \in 1..Len(found) :
             (Undated(found[i]) /\ Undated(found[j])) => ~Less(found[i], found[j])
       /\ Len(found) <= MaxInsertion
             => SelectSeq(ranked, Undated) = SelectSeq(found, Undated)

\* the words w hold an ambiguous limit: a limit keyword before a token that is
\* no positive integer, or "employee(s)" after such a token
AmbiguousLimit(w) ==
    \E i \in 1..(Len(w) - 1) :
        \/ w[i] \in {KwLast, KwTop, KwLatest} /\ ~IsPositive(w[i + 1])
        \/ w[i + 1] \in {KwEmployees, KwEmployee} /\ ~IsPositive(w[i])

\* C15 as stated: a query with an ambiguous limit is not truncated at all,
\* and returns no error.
C15_AmbiguousMeansNoLimit ==
    (pc \in {"format", "done"} /\ Bulk /\ AmbiguousLimit(Fields(query)))
    => (employees = ranked /\ err = "nil")

\* C15 as amended: an ambiguous limit is ignored without an error: the result
\* is truncated only by a well-formed limit pattern of the query whose number
\* is below the number of records, and not at all when the query has none.
C15_AmbiguousIgnored ==
    (pc \in {"format", "done"} /\ Bulk /\ AmbiguousLimit(Fields(query)))
    => LET p == Patterns
       IN /\ err = "nil"
          /\ (\A n \in p.nums : n >= Len(ranked)) => employees = ranked
          /\ \/ employees = ranked
             \/ \E n \in p.nums : n < Len(ranked) /\ employees = SubSeq(ranked, 1, n)

\* C15 witness: "top x" alone over two records or more, none cut
C15_Witness ==
    /\ Returned /\ Bulk /\ AmbiguousLimit(Fields(query)) /\ ~Patterns.has
    /\ Len(ranked) >= 2 /\ employees = ranked /\ Len(output) = Len(ranked) + 2

\* C15 witness of an ambiguous limit followed by a well-formed one that cuts
C15_WitnessOtherPattern ==
    /\ Returned /\ Bulk /\ AmbiguousLimit(Fields(query)) /\ Patterns.nums = {1}
    /\ Len(ranked) = 2 /\ employees = SubSeq(ranked, 1, 1)

\* what a list line shows after the name and the title of the record e
ListSuffix(line, e) == SubSeq(line, IF e.title = <<>> THEN 6 ELSE 8, Len(line))

\* the lines of the narrative that give a deactivation date
DateLines == {k \in 1..Len(output) : output[k][1] = TxtDeactivationDate}

\* C16: a deactivation date is shown only for a deactivated record. A table
\* row has the status Active and an empty date column for an active record
\* (also when it carries a date), Deactivated and the date otherwise; a list
\* line ends in " (Deactivated on {date})" for a deactivated record with a
\* date, " (Deactivated)" for one without, and in nothing for an active one;
\* the narrative has a "Deactivation Date" line only for a deactivated record
\* with a date, right after "Status: Deactivated".
C16_DateOnlyWhenDeactivated ==
    (Returned /\ Records /\ err = "nil")
    => IF isSpecificEmployeeSearch(query)
       THEN ClaimedAnswer.hit
            => LET e == jsonData.items[ClaimedAnswer.rec]
               IN /\ (e.deactivated /\ e.deactivated_date # <<>>)
                     => \E k \in 2..Len(output) :
                           /\ DateLines = {k}
                           /\ output[k - 1] = <<TxtStatusDeactivated>>
                           /\ output[k] = <<TxtDeactivationDate, e.deactivated_date>>
                  /\ ~(e.deactivated /\ e.deactivated_date # <<>>) => DateLines = {}
                  /\ ~e.deactivated
                     => /\ \E k \in 1..Len(output) : output[k] = <<TxtStatusActive>>
                        /\ \A k \in 1..Len(output) : output[k] # <<TxtStatusDeactivated>>
       ELSE \A i \in 1..Len(employees) :
               LET e    == employees[i]
                   line == output[i + 2]
               IN IF WantsTable(query)
                  THEN /\ line[8] = (IF e.deactivated THEN TxtDeactivated ELSE TxtActive)
                       /\ line[10] = (IF e.deactivated THEN e.deactivated_date ELSE <<>>)
                  ELSE ListSuffix(line, e) =
                          (IF e.deactivated /\ e.deactivated_date # <<>>
                           THEN <<TxtDeactivatedOn, e.deactivated_date, TxtCloseParen>>
                           ELSE IF e.deactivated THEN <<TxtDeactivatedParen>>
                           ELSE <<>>)

\* C16 witness: the table row of an active record that carries a date
C16_Witness ==
    /\ Returned /\ Bulk /\ WantsTable(query)
    /\ \E i \in 1..Len(employees) :
          /\ employees[i] = EmpKai /\ EmpKai.deactivated_date # <<>>
          /\ output[i + 2][8] = TxtActive /\ output[i + 2][10] = <<>>

\* C16 witness of the list: an active record that carries a date, then a
\* deactivated one with its date
C16_WitnessList ==
    /\ Returned /\ Bulk /\ ~WantsTable(query) /\ employees = <<EmpKai, EmpJohn>>
    /\ Len(output[3]) = 5 /\ Len(output[4]) = 10

\* C16 witness of the narrative of an active record that carries a date
C16_WitnessNarrative ==
    /\ Returned /\ Records /\ isSpecificEmployeeSearch(query)
    /\ NamesRecord(output, EmpKai) /\ DateLines = {}

\* C18: the example query of the tool description, "When John Doe was
\* deactivated?", over a collection holding John Doe, is answered with the
\* narrative of John Doe.
C18_ExampleIsLookup ==
    (/\ Returned /\ Records /\ rawQuery = QueryWhenJohnDoe
     /\ \E i \in 1..Len(jsonData.items) : jsonData.items[i] = EmpJohn)
    => (isSpecificEmployeeSearch(query) /\ NamesRecord(output, EmpJohn))

\* the users of the pages users.list has answered with, in order
RECURSIVE UsersOf(_)
UsersOf(resps) ==
    IF resps = <<>> THEN <<>>
    ELSE (IF Head(resps).kind = "page" THEN Head(resps).users ELSE <<>>)
         \o UsersOf(Tail(resps))

\* the user u is one the filter f asks for
Requested(u, f) ==
    \/ f = FilterAll
    \/ f = FilterActive /\ ~u.Deleted
    \/ f = FilterDeactivated /\ u.Deleted

\* C17: every record the fetch appends has an empty deactivated_date unless
\* it is deactivated, and the records appended are, in order, those of the
\* users fetched that are no bots and that the filter asks for (active users
\* for FilterActive, deleted ones for FilterDeactivated, all for FilterAll).
C17_FetchedRecords ==
    LET kept == SelectSeq(UsersOf(responses),
                          LAMBDA u : ~u.IsBot /\ Requested(u, filter))
    IN /\ \A i \in 1..Len(slackEmployees) :
             ~slackEmployees[i].deactivated
             => slackEmployees[i].deactivated_date = <<>>
       /\ Len(slackEmployees) = Len(kept)
       /\ \A i \in 1..Len(kept) :
             /\ slackEmployees[i].deactivated = kept[i].Deleted
             /\ slackEmployees[i].email = kept[i].Email
             /\ slackEmployees[i].title = kept[i].Title

\* C17 witness: the deleted users of two pages holding an active user, a bot
\* and two deleted users
C17_Witness ==
    /\ slackPc = "done" /\ filter = FilterDeactivated
    /\ totalUsers = 5 /\ Len(slackEmployees) = 2
    /\ \A i \in 1..2 : slackEmployees[i].deactivated_date = DateMar2022

\* C17 witness of an active user, updated at some time, appended without date
C17_WitnessActive ==
    /\ slackPc = "done" /\ filter = FilterActive
    /\ Len(slackEmployees) = 1 /\ UserAda.Updated > 0
    /\ slackEmployees[1].first_name = UserAda.FirstName
    /\ slackEmployees[1].deactivated_date = <<>>

\* what holds of the pagination at every moment: at most
\* maxPaginationAttempts pages were requested; only the last request was
\* answered with an error or with a last page (an empty cursor); the users
\* processed are those of the pages fetched
PaginationStops ==
    /\ Len(responses) <= maxPaginationAttempts
    /\ paginationCount = Len(responses)
    /\ \A i \in 1..(Len(responses) - 1) :
          responses[i].kind = "page" /\ responses[i].cursor # ""
    /\ totalUsers = Len(UsersOf(responses))
    /\ Len(slackEmployees) <= totalUsers

\* C20: the pagination loop terminates, whatever users.list answers, after
\* at most maxPaginationAttempts requests; it stops at the first request
\* answered with an error or after the page that reports the end, and no
\* users are processed after that.
C20_PaginationTerminates == []PaginationStops /\ <>(slackPc = "done")

\* C20 witness: the loop was left after maxPaginationAttempts pages, the last
\* of which names a next page
C20_Witness ==
    /\ slackPc = "done" /\ slackErr = "nil"
    /\ Len(responses) = maxPaginationAttempts
    /\ responses[maxPaginationAttempts].kind = "page"
    /\ responses[maxPaginationAttempts].cursor # ""

\* C20 witness of the loop left on an error, the users of the page before kept
C20_WitnessFailure ==
    /\ slackPc = "done" /\ Len(responses) = 2
    /\ responses[2].kind = "error" /\ totalUsers = 2
    /\ pagination.Users = responses[1].users

\* ------------------------------------------------------------------- C19
\* the names of the callbacks the handler has received, in order
Callbacks == [i \in 1..Len(events) |-> events[i].callback]
\* the return paths of the two Call methods, by what failed
ReturnPaths ==
    {"parse", "no file path", "stat", "directory", "read", "unmarshal", "fetch",
     "mkdir", "write", "nil"}

\* C19: with a handler, HandleToolStart is received exactly once, before
\* anything else of the call happens, and HandleToolEnd exactly once, after
\* it, when the call returns, on every return path of JSONQueryTool.Call and
\* of SlackAMAEmployeesTool.Call; without a handler nothing is received.
C19_CallbackProtocol ==
    /\ toolErr \in ReturnPaths
    /\ ~handler => Len(events) = 0
    /\ handler =>
          /\ toolPc \in {"off", "call"} => Callbacks = <<>>
          /\ toolPc \in {"query", "fetch", "return"} => Callbacks = <<"HandleToolStart">>
          /\ toolPc = "returned" => Callbacks = <<"HandleToolStart", "HandleToolEnd">>

\* a call with a handler has returned on the path of what failed
Returned19(name, failed) ==
    /\ toolPc = "returned"
    /\ handler
    /\ tool = name
    /\ toolErr = failed

\* JSONQueryTool.Call has returned the error of ProcessQuery to a caller with
\* a handler
C19_Witness == Returned19(NameQueryJSON, "unmarshal")
C19_WitnessParse == Returned19(NameQueryJSON, "parse")
C19_WitnessNoPath == Returned19(NameQueryJSON, "no file path")
C19_WitnessStat == Returned19(NameQueryJSON, "stat")
C19_WitnessDirectory == Returned19(NameQueryJSON, "directory")
C19_WitnessRead == Returned19(NameQueryJSON, "read")
C19_WitnessQuery == Returned19(NameQueryJSON, "nil") /\ toolReturn # <<>>
C19_WitnessFetch == Returned19(NameSearchAMAEmployees, "fetch")
C19_WitnessMkdir == Returned19(NameSearchAMAEmployees, "mkdir")
C19_WitnessWrite == Returned19(NameSearchAMAEmployees, "write")
C19_WitnessSaved ==
    Returned19(NameSearchAMAEmployees, "nil") /\ Len(slackEmployees) > 0
C19_WitnessNoHandler == toolPc = "returned" /\ ~handler

\* ------------------------------------------------------------------- C21
\* a request of the fetch was answered with an error
PageFailed == \E i \in 1..Len(responses) : responses[i].kind = "error"

\* C21: when the fetch of a page has failed, SearchAMAEmployees returns an
\* error, and no list of the employees of the pages before it with a nil
\* error.
C21_PageFailureIsError ==
    (slackPc = "done" /\ PageFailed) => slackErr # "nil"

\* ------------------------------------------------------------------- C22
\* C22: the answer of a single-person lookup is the narrative of a record or
\* the not-found text, never a list or a table, with no error; no record was
\* decoded for, sorted by or cut by the bulk stages; and over a collection of
\* records it is the whole narrative of the record the word pairs select in
\* the unfiltered collection, whatever status, sort, limit and format words
\* the query holds.
C22_LookupIgnoresBulkIntent ==
    (Returned /\ isSpecificEmployeeSearch(query))
    => /\ err = "nil"
       /\ TookLookup
       /\ found = <<>> /\ ranked = <<>> /\ employees = <<>>
       /\ Records
          => LET a == ClaimedAnswer
             IN output = IF a.hit THEN Narrative(jsonData.items[a.rec])
                         ELSE <<<<MsgNotFound>>>>

\* C22 witness: a lookup in a query that holds "deactivated" answers with the
\* narrative of an active record
C22_Witness ==
    /\ Returned /\ Records /\ isSpecificEmployeeSearch(query)
    /\ StatusFilter(query) = "DEACTIVATED"
    /\ ClaimedAnswer.hit
    /\ ~jsonData.items[ClaimedAnswer.rec].deactivated
    /\ output = Narrative(jsonData.items[ClaimedAnswer.rec])

\* C22 witness of a lookup in a query that asks for the latest 1, for the
\* deactivated, for the date order and for a table, over two records
C22_WitnessBulkWords ==
    /\ Returned /\ Records /\ isSpecificEmployeeSearch(query)
    /\ WantsDateSort(query) /\ WantsTable(query)
    /\ Len(jsonData.items) = 2
    /\ ApplyLimit(query, jsonData.items) # jsonData.items
    /\ ClaimedAnswer.hit
    /\ Len(output) >= 2 /\ output[1][1] = TxtEmployee

\* ------------------------------------------------------------------- C23
\* the line is empty or holds white space only
BlankLine(text) == \A i \in 1..Len(text) : IsSpace(text[i])

\* the line is the word exit, in any case, between white space
ExitLine(text) ==
    \E i \in 1..Len(text) :
       /\ i + 3 <= Len(text)
       /\ ToLower(SubSeq(text, i, i + 3)) = KwExit
       /\ \A k \in 1..Len(text) : (k < i \/ k > i + 3) => IsSpace(text[k])

\* the prompts the claim has the loop process for the lines read: no blank
\* line, and no line from the first exit line on
RECURSIVE ClaimedPrompts(_)
ClaimedPrompts(texts) ==
    IF texts = <<>> \/ ExitLine(Head(texts)) THEN <<>>
    ELSE IF BlankLine(Head(texts)) THEN ClaimedPrompts(Tail(texts))
    ELSE <<TrimSpace(Head(texts))>> \o ClaimedPrompts(Tail(texts))

\* main has an agent and runs the loop, or processes the prompt of -prompt
Interactive == agentReady /\ promptFlag = <<>>
NonInteractive == agentReady /\ promptFlag # <<>>
LoopEnded == Interactive /\ cliPc \in {"leave", "exited"}
EndedByExit == scanned # <<>> /\ ExitLine(scanned[Len(scanned)])

\* the prompts given to ProcessPrompt are those of the lines read that are not
\* blank, in order, whatever ProcessPrompt returned for the lines before, up
\* to the first exit line, which is the last line read
LoopProcesses ==
    Interactive
    => /\ [i \in 1..Len(processed) |-> processed[i].prompt] = ClaimedPrompts(scanned)
       /\ \A i \in 1..Len(scanned) :
             ExitLine(scanned[i]) => (i = Len(scanned) /\ LoopEnded)

\* with -prompt one prompt is processed, that of the flag, no line is read,
\* and the exit status tells whether ProcessPrompt returned an error
SinglePrompt ==
    NonInteractive
    => /\ scanned = <<>>
       /\ Len(processed) <= 1
       /\ cliPc = "exited"
          => /\ Len(processed) = 1
             /\ processed[1].prompt = promptFlag
             /\ exitStatus = IF processed[1].ok THEN 0 ELSE 1

\* C23 as stated: blank lines never reach ProcessPrompt, an exit line ends
\* the loop unprocessed and nothing is read after it, an error of ProcessPrompt
\* does not end the loop, the loop otherwise ends only when every line of the
\* input was read, and with -prompt exactly one prompt is processed, with exit
\* status 0 on success and 1 on error.
C23_LoopEndsOnlyAtExitOrEnd ==
    /\ LoopProcesses
    /\ SinglePrompt
    /\ LoopEnded => (EndedByExit \/ stdin = <<>>)

\* C23, amended: as above, but the loop also ends when the scanner fails: at
\* a line of MaxScanTokenSize characters or more, which is not read, and at
\* a read error after the last line; the scanner has an error in these two
\* cases only, and the process exits with status 0 when the loop has ended.
C23_LoopEndsAtExitEndOrScanError ==
    /\ LoopProcesses
    /\ SinglePrompt
    /\ LoopEnded
       => \/ EndedByExit /\ scannerErr = "nil"
          \/ /\ ~EndedByExit /\ stdin = <<>>
             /\ scannerErr = IF stdinEnd = "EOF" THEN "nil" ELSE "read error"
          \/ /\ ~EndedByExit /\ stdin # <<>>
             /\ LineLength(Head(stdin)) >= MaxScanTokenSize
             /\ scannerErr = "token too long"
    /\ (Interactive /\ ~LoopEnded) => scannerErr = "nil"
    /\ (Interactive /\ cliPc = "exited") => exitStatus = 0

\* C23 witness: ProcessPrompt has failed for the first line, the second line
\* was processed all the same, and "  EXIT " has ended the loop
C23_Witness ==
    /\ Interactive /\ cliPc = "exited" /\ exitStatus = 0
    /\ Len(processed) = 2 /\ ~processed[1].ok /\ processed[2].ok
    /\ Len(scanned) = 3 /\ scanned[3] = TextExitPadded

\* C23 witness of a line that does not fit: the loop has ended before it,
\* with a line after it unread
C23_WitnessTooLong ==
    /\ Interactive /\ cliPc = "exited" /\ scannerErr = "token too long"
    /\ Len(processed) = 1 /\ Len(stdin) = 2

\* C23 witness of a blank line skipped and of a line after the exit line
C23_WitnessBlankThenExit ==
    /\ Interactive /\ cliPc = "exited"
    /\ Len(scanned) = 2 /\ scanned[1] = TextBlank /\ ExitLine(scanned[2])
    /\ processed = <<>> /\ Len(stdin) = 1 /\ Fits(Head(stdin))

\* C23 witness of the single prompt that fails
C23_WitnessSinglePromptFails ==
    /\ NonInteractive /\ cliPc = "exited" /\ exitStatus = 1
    /\ Len(processed) = 1 /\ stdin # <<>>

====
